---------------------------- MODULE Spec2Model ----------------------------
(***************************************************************************)
(* A model of the diet chatbot's query analysis and profile accumulation   *)
(* pipeline: DietChatbot.process_message / reset_conversation              *)
(* (src/src/chatbot.py), NutritionExpert (src/src/nutrition_expert.py) and  *)
(* the helpers of src/src/utils.py.                                         *)
(*                                                                         *)
(* Texts are TLA+ strings and are scanned character by character, the way  *)
(* Python's `in`, str.lower, str.strip and the regular expressions of      *)
(* extract_user_info scan them.  The response templates are the source's   *)
(* texts without their emoji and bullet glyphs (no scanned phrase holds    *)
(* such a glyph).  Python floats are modelled as exact decimals held in    *)
(* limbs of four digits (see Dec below).                                   *)
(***************************************************************************)
EXTENDS Integers, Sequences, FiniteSets, TLC

VARIABLES
    conversation_history,   \* DietChatbot.conversation_history: user id -> list of turns
    user_profiles,          \* NutritionExpert.user_profiles: user id -> profile dict
    model_loaded,           \* DietChatbot.model and .tokenizer are both set
    appended,               \* every turn appended for a user since the history was created
    last,                   \* the call that just ended: its inputs and its outcome
    calls,                  \* number of calls made so far
    evaluated,              \* a function called on its own: its name, arguments and result
    in_flight,              \* the process_message calls in progress, by user id
    ui_history              \* the chat history the interface shows to each session

vars == <<conversation_history, user_profiles, model_loaded, appended, last, calls,
          evaluated, in_flight, ui_history>>

---------------------------------------------------------------------------
(* Characters and strings                                                  *)

UpperLetters == "ABCDEFGHIJKLMNOPQRSTUVWXYZ"

LowerLetters == "abcdefghijklmnopqrstuvwxyz"

Digits == "0123456789"

CharAt(s, i) == SubSeq(s, i, i)

\* the characters of a string, as a set
CharsOf(s) == {CharAt(s, i) : i \in 1..Len(s)}

\* the function that maps the i-th character of from to the i-th character of to
CharMap(from, to) ==
    [c \in CharsOf(from) |-> CharAt(to, CHOOSE i \in 1..Len(from) : CharAt(from, i) = c)]

ToLower == CharMap(UpperLetters, LowerLetters)

ToUpper == CharMap(LowerLetters, UpperLetters)

\* int(c) for a digit c
DigitValue == [c \in CharsOf(Digits) |-> (CHOOSE i \in 1..10 : CharAt(Digits, i) = c) - 1]

LowerChar(c) == IF c \in DOMAIN ToLower THEN ToLower[c] ELSE c

RECURSIVE LowerFrom(_, _, _)
\* s[from-1:].lower(), upper holding the positions of the upper-case letters of s
LowerFrom(s, upper, from) ==
    LET rest == {i \in upper : i >= from}
    IN IF rest = {} THEN SubSeq(s, from, Len(s))
       ELSE LET j == CHOOSE i \in rest : \A k \in rest : i <= k
            IN SubSeq(s, from, j - 1) \o ToLower[CharAt(s, j)] \o LowerFrom(s, upper, j + 1)

\* str.lower()
Lower(s) == LowerFrom(s, {i \in 1..Len(s) : CharAt(s, i) \in DOMAIN ToLower}, 1)

\* Python's `t in s`
Contains(s, t) ==
    \E i \in 1..(Len(s) - Len(t) + 1) : SubSeq(s, i, i + Len(t) - 1) = t

\* a regex literal matches at position i
MatchesAt(s, i, t) ==
    /\ i >= 1
    /\ i + Len(t) - 1 <= Len(s)
    /\ SubSeq(s, i, i + Len(t) - 1) = t

IsDigit(c) == c \in DOMAIN DigitValue

\* \s
IsSpace(c) == c \in {" ", "\t", "\n", "\r", "\f"}

\* \w
IsWordChar(c) ==
    \/ c \in DOMAIN ToUpper
    \/ c \in DOMAIN ToLower
    \/ IsDigit(c)
    \/ c = "_"

\* str.strip()
Strip(s) ==
    LET keep == {i \in 1..Len(s) : ~IsSpace(CharAt(s, i))}
    IN IF keep = {} THEN ""
       ELSE SubSeq(s, CHOOSE i \in keep : \A j \in keep : i <= j,
                      CHOOSE i \in keep : \A j \in keep : i >= j)

---------------------------------------------------------------------------
(* validate_user_input                                                     *)

inappropriate_terms ==
    <<"medication", "drug", "prescription", "diagnose", "cure", "treat">>

\* validate_user_input measuring the text with its surrounding white space
validate_user_input_unstripped(text) ==
    IF text = "" \/ Len(text) < 3
    THEN FALSE
    ELSE LET text_lower == Lower(text)
         IN ~ \E k \in 1..Len(inappropriate_terms) :
                   Contains(text_lower, inappropriate_terms[k])

\* validate_user_input with the terms looked up in the text as typed, not lower-cased
validate_user_input_as_typed(text) ==
    IF text = "" \/ Len(Strip(text)) < 3
    THEN FALSE
    ELSE ~ \E k \in 1..Len(inappropriate_terms) : Contains(text, inappropriate_terms[k])

validate_user_input(text) ==
    IF text = "" \/ Len(Strip(text)) < 3
    THEN FALSE
    ELSE LET text_lower == Lower(text)
         IN ~ \E k \in 1..Len(inappropriate_terms) :
                   Contains(text_lower, inappropriate_terms[k])

---------------------------------------------------------------------------
(* NutritionExpert._classify_query                                         *)

ClassifyRules ==
    << [type |-> "calorie_calculation",
        words |-> {"calorie", "calories", "bmr", "tdee", "metabolic rate"}],
       [type |-> "macro_advice",
        words |-> {"protein", "carb", "fat", "macro", "macronutrient"}],
       [type |-> "meal_planning",
        words |-> {"meal plan", "diet plan", "what to eat", "menu"}],
       [type |-> "nutrient_advice",
        words |-> {"vitamin", "mineral", "nutrient", "deficiency"}],
       [type |-> "weight_loss",
        words |-> {"lose weight", "weight loss", "diet", "cutting"}],
       [type |-> "weight_gain",
        words |-> {"gain weight", "bulk", "muscle", "gain muscle"}],
       [type |-> "recipe_advice",
        words |-> {"recipe", "cook", "food", "ingredient"}] >>

\* _classify_query returning the intent of the last rule that matches, not the first
_classify_query_last_match(query) ==
    LET hit == {k \in 1..Len(ClassifyRules) :
                    \E w \in ClassifyRules[k].words : Contains(query, w)}
    IN IF hit = {} THEN "general_nutrition"
       ELSE ClassifyRules[CHOOSE k \in hit : \A j \in hit : k >= j].type

_classify_query(query) ==
    LET hit == {k \in 1..Len(ClassifyRules) :
                    \E w \in ClassifyRules[k].words : Contains(query, w)}
    IN IF hit = {} THEN "general_nutrition"
       ELSE ClassifyRules[CHOOSE k \in hit : \A j \in hit : k <= j].type

---------------------------------------------------------------------------
(* Python floats as exact decimals.  A Dec is <<i, f1, f2, f3, f4>>: the   *)
(* value i + f1/10^4 + f2/10^8 + f3/10^12 + f4/10^16 with i any integer    *)
(* and 0 <= fk < 10^4.                                                     *)

Base == 10000

FracLimbs == 4

NLimbs == FracLimbs + 1

\* carries every limb into the range 0..Base-1, the integer limb taking the rest
DecNorm(raw) ==
    LET C[j \in 2..(NLimbs + 1)] ==
            IF j = NLimbs + 1 THEN 0 ELSE (raw[j] + C[j + 1]) \div Base
    IN [j \in 1..NLimbs |->
            IF j = 1 THEN raw[1] + C[2] ELSE (raw[j] + C[j + 1]) % Base]

DecFromInt(n) == [j \in 1..NLimbs |-> IF j = 1 THEN n ELSE 0]

DecAdd(a, b) == DecNorm([j \in 1..NLimbs |-> a[j] + b[j]])

DecSub(a, b) == DecNorm([j \in 1..NLimbs |-> a[j] - b[j]])

\* a * c for a Dec c >= 0; digits below the last limb are dropped
DecMul(a, c) ==
    LET P[k \in 1..NLimbs, j \in 0..NLimbs] ==
            IF j = 0 THEN 0
            ELSE IF j > k THEN P[k, j - 1]
            ELSE P[k, j - 1] + a[j] * c[k - j + 1]
    IN DecNorm([k \in 1..NLimbs |-> P[k, NLimbs]])

\* a / n for an integer n in 1..9; digits below the last limb are dropped
DecDivInt(a, n) ==
    LET R[j \in 1..NLimbs] ==
            IF j = 1 THEN a[1] % n ELSE (R[j - 1] * Base + a[j]) % n
    IN [j \in 1..NLimbs |->
            IF j = 1 THEN a[1] \div n ELSE (R[j - 1] * Base + a[j]) \div n]

\* round(x): to the nearest integer, a tie to the even one
DecRound(a) ==
    LET tie == a[2] = Base \div 2 /\ \A j \in 3..NLimbs : a[j] = 0
    IN IF tie THEN (IF a[1] % 2 = 0 THEN a[1] ELSE a[1] + 1)
       ELSE IF a[2] >= Base \div 2 THEN a[1] + 1
       ELSE a[1]

\* int(x) of a float: towards zero
DecTrunc(a) ==
    IF a[1] < 0 /\ \E j \in 2..NLimbs : a[j] # 0 THEN a[1] + 1 ELSE a[1]

\* a < b
DecLess(a, b) ==
    \E j \in 1..NLimbs : a[j] < b[j] /\ \A k \in 1..(j - 1) : a[k] = b[k]

\* int("123")
ParseInt(s) ==
    LET F[i \in 0..Len(s)] ==
            IF i = 0 THEN 0 ELSE F[i - 1] * 10 + DigitValue[CharAt(s, i)]
    IN F[Len(s)]

\* float("123.45"): whole holds the digits before the point, frac those after it
ParseFloat(whole, frac) ==
    LET digit(k) == IF k <= Len(frac) THEN DigitValue[CharAt(frac, k)] ELSE 0
        limb(j) == digit(4 * j - 7) * 1000 + digit(4 * j - 6) * 100
                   + digit(4 * j - 5) * 10 + digit(4 * j - 4)
    IN [j \in 1..NLimbs |-> IF j = 1 THEN ParseInt(whole) ELSE limb(j)]

---------------------------------------------------------------------------
(* The regular expressions of extract_user_info, each on text.lower().     *)
(* re.search returns the leftmost match; every quantifier below is greedy  *)
(* and followed by a character it cannot itself match, so a match at a     *)
(* start position is unique.                                               *)

\* first position at or after i whose character is not a digit (\d+ ends there)
DigitsEnd(s, i) ==
    CHOOSE j \in i..(Len(s) + 1) :
        /\ \A k \in i..(j - 1) : IsDigit(CharAt(s, k))
        /\ j = Len(s) + 1 \/ ~IsDigit(CharAt(s, j))

\* first position at or after i whose character is not white space (\s* ends there)
SpacesEnd(s, i) ==
    CHOOSE j \in i..(Len(s) + 1) :
        /\ \A k \in i..(j - 1) : IsSpace(CharAt(s, k))
        /\ j = Len(s) + 1 \/ ~IsSpace(CharAt(s, j))

\* the least element of a non-empty set of positions
Leftmost(S) == CHOOSE i \in S : \A j \in S : i <= j

\* (\d+(?:\.\d+)?)\s*(unit|...) at position i: the end of the number, and the unit
NumberAt(s, i) ==
    LET parts(e1, e2) ==
            [whole |-> SubSeq(s, i, e1 - 1),
             frac |-> IF e2 > e1 THEN SubSeq(s, e1 + 1, e2 - 1) ELSE "",
             unitAt |-> SpacesEnd(s, e2)]
        \* (?:\.\d+)? from e1 on ends at f when it matches, at e1 when it does not
        fracEnd(e1, f) == IF MatchesAt(s, e1, ".") /\ f > e1 + 1 THEN f ELSE e1
        from(e1) == parts(e1, fracEnd(e1, DigitsEnd(s, e1 + 1)))
    IN from(DigitsEnd(s, i))

NumberUnitStarts(s, units) ==
    {i \in 1..Len(s) :
        /\ IsDigit(CharAt(s, i))
        /\ \E u \in units : MatchesAt(s, NumberAt(s, i).unitAt, u)}

\* r'(\d+(?:\.\d+)?)\s*(kg|pounds?|lbs?)'
WeightUnits == {"kg", "pound", "lb"}

\* r'(\d+(?:\.\d+)?)\s*(?:cm|centimeters?)'
HeightUnits == {"cm", "centimeter"}

\* r'(\d+)\s*(?:feet?|ft|\')\s*(\d+)\s*(?:inches?|in|")' at position i
FeetInchesAt(s, i) ==
    LET \* (\d+)\s*(?:inches?|in|") with the digits from d to e2
        inchesPart(d, e2) ==
            /\ e2 > d
            /\ \E w \in {"inche", "in", "\""} : MatchesAt(s, SpacesEnd(s, e2), w)
        inchesFrom(d) == inchesPart(d, DigitsEnd(s, d))
        ok(p) == inchesFrom(SpacesEnd(s, p))
        matched(e1, d) ==
            [found |-> TRUE,
             feet |-> ParseInt(SubSeq(s, i, e1 - 1)),
             inches |-> ParseInt(SubSeq(s, d, DigitsEnd(s, d) - 1))]
        pick(e1, good) ==
            IF good = {} THEN [found |-> FALSE, feet |-> 0, inches |-> 0]
            ELSE matched(e1, SpacesEnd(s, Leftmost(good)))
        unit(e1, u1) ==
            pick(e1, {p \in {u1 + Len(w) : w \in {w \in {"feet", "fee", "ft", "'"} :
                                                        MatchesAt(s, u1, w)}} : ok(p)})
        from(e1) == unit(e1, SpacesEnd(s, e1))
    IN from(DigitsEnd(s, i))

FeetInchesStarts(s) ==
    {i \in 1..Len(s) : IsDigit(CharAt(s, i)) /\ FeetInchesAt(s, i).found}

\* r'(\d+)\s*(?:years?\s*old|yr|age)' at position i
AgeAt(s, i) ==
    LET unit(u) ==
            \/ /\ MatchesAt(s, u, "year")
               /\ MatchesAt(s, SpacesEnd(s, IF MatchesAt(s, u + 4, "s") THEN u + 5 ELSE u + 4),
                            "old")
            \/ MatchesAt(s, u, "yr")
            \/ MatchesAt(s, u, "age")
    IN unit(SpacesEnd(s, DigitsEnd(s, i)))

AgeStarts(s) == {i \in 1..Len(s) : IsDigit(CharAt(s, i)) /\ AgeAt(s, i)}

\* r'\b(?:w1|w2|...)\b': every alternative starts and ends with a word character
WordSearch(s, alternatives) ==
    \E w \in alternatives : \E i \in 1..(Len(s) - Len(w) + 1) :
        /\ MatchesAt(s, i, w)
        /\ i = 1 \/ ~IsWordChar(CharAt(s, i - 1))
        /\ i + Len(w) > Len(s) \/ ~IsWordChar(CharAt(s, i + Len(w)))

PoundsToKg == <<0, 4535, 9200, 0, 0>>      \* 0.453592

InchesToCm == <<2, 5400, 0, 0, 0>>         \* 2.54

\* a dict with no key
EmptyDict == [k \in {} |-> 0]

\* dict.update: the keys of d2 are set in d1, the others are kept
Update(d1, d2) ==
    [k \in DOMAIN d1 \cup DOMAIN d2 |-> IF k \in DOMAIN d2 THEN d2[k] ELSE d1[k]]

Entry(key, value) == [k \in {key} |-> value]

\* extract_weight keeping the number as written, pounds not converted
extract_weight_unconverted(t) ==
    LET weight_match(m) == Entry("weight", ParseFloat(m.whole, m.frac))
        among(starts) ==
            IF starts = {} THEN EmptyDict ELSE weight_match(NumberAt(t, Leftmost(starts)))
    IN among(NumberUnitStarts(t, WeightUnits))

extract_weight(t) ==
    LET converted(unitAt, weight_value) ==
            IF MatchesAt(t, unitAt, "lb") \/ MatchesAt(t, unitAt, "pound")
            THEN DecMul(weight_value, PoundsToKg)
            ELSE weight_value
        weight_match(m) == Entry("weight", converted(m.unitAt, ParseFloat(m.whole, m.frac)))
        among(starts) ==
            IF starts = {} THEN EmptyDict ELSE weight_match(NumberAt(t, Leftmost(starts)))
    IN among(NumberUnitStarts(t, WeightUnits))

extract_height(t) ==
    LET height_match(m) == Entry("height", ParseFloat(m.whole, m.frac))
        feet_inches(m) ==
            Entry("height", DecMul(DecFromInt(m.feet * 12 + m.inches), InchesToCm))
        imperial(starts) ==
            IF starts # {} THEN feet_inches(FeetInchesAt(t, Leftmost(starts))) ELSE EmptyDict
        among(starts) ==
            IF starts # {} THEN height_match(NumberAt(t, Leftmost(starts)))
            ELSE imperial(FeetInchesStarts(t))
    IN among(NumberUnitStarts(t, HeightUnits))

extract_age(t) ==
    LET age_match(i) == Entry("age", ParseInt(SubSeq(t, i, DigitsEnd(t, i) - 1)))
        among(starts) == IF starts = {} THEN EmptyDict ELSE age_match(Leftmost(starts))
    IN among(AgeStarts(t))

\* extract_gender testing the female words first
extract_gender_female_first(t) ==
    IF WordSearch(t, {"female", "woman", "girl"}) THEN Entry("gender", "female")
    ELSE IF WordSearch(t, {"male", "man", "guy"}) THEN Entry("gender", "male")
    ELSE EmptyDict

extract_gender(t) ==
    IF WordSearch(t, {"male", "man", "guy"}) THEN Entry("gender", "male")
    ELSE IF WordSearch(t, {"female", "woman", "girl"}) THEN Entry("gender", "female")
    ELSE EmptyDict

\* extract_activity storing the level as it is worded, with a space
extract_activity_as_worded(t) ==
    IF WordSearch(t, {"sedentary", "desk job", "no exercise"})
    THEN Entry("activity", "sedentary")
    ELSE IF WordSearch(t, {"lightly active", "light exercise"})
    THEN Entry("activity", "lightly active")
    ELSE IF WordSearch(t, {"moderately active", "moderate exercise"})
    THEN Entry("activity", "moderately active")
    ELSE IF WordSearch(t, {"very active", "heavy exercise"})
    THEN Entry("activity", "very active")
    ELSE IF WordSearch(t, {"extremely active", "athlete"})
    THEN Entry("activity", "extremely active")
    ELSE EmptyDict

extract_activity(t) ==
    IF WordSearch(t, {"sedentary", "desk job", "no exercise"})
    THEN Entry("activity", "sedentary")
    ELSE IF WordSearch(t, {"lightly active", "light exercise"})
    THEN Entry("activity", "lightly_active")
    ELSE IF WordSearch(t, {"moderately active", "moderate exercise"})
    THEN Entry("activity", "moderately_active")
    ELSE IF WordSearch(t, {"very active", "heavy exercise"})
    THEN Entry("activity", "very_active")
    ELSE IF WordSearch(t, {"extremely active", "athlete"})
    THEN Entry("activity", "extremely_active")
    ELSE EmptyDict

extract_goal(t) ==
    IF WordSearch(t, {"lose weight", "weight loss", "cut", "cutting"})
    THEN Entry("goal", "lose_weight")
    ELSE IF WordSearch(t, {"gain weight", "bulk", "bulking", "gain muscle"})
    THEN Entry("goal", "gain_weight")
    ELSE IF WordSearch(t, {"maintain", "maintenance"})
    THEN Entry("goal", "maintain_weight")
    ELSE EmptyDict

extract_user_info(text) ==
    LET info(t) ==
            Update(extract_weight(t),
            Update(extract_height(t),
            Update(extract_age(t),
            Update(extract_gender(t),
            Update(extract_activity(t), extract_goal(t))))))
    IN info(Lower(text))

---------------------------------------------------------------------------
(* config/nutrition_data.py and the calculators of utils.py.  A function   *)
(* that can raise returns [ok |-> FALSE] for the exception.                *)

ACTIVITY_MULTIPLIERS ==
    [a \in {"sedentary", "lightly_active", "moderately_active",
            "very_active", "extremely_active"} |->
        CASE a = "sedentary"         -> <<1, 2000, 0, 0, 0>>
          [] a = "lightly_active"    -> <<1, 3750, 0, 0, 0>>
          [] a = "moderately_active" -> <<1, 5500, 0, 0, 0>>
          [] a = "very_active"       -> <<1, 7250, 0, 0, 0>>
          [] a = "extremely_active"  -> <<1, 9000, 0, 0, 0>>]

WEIGHT_GOALS ==
    [g \in {"lose_weight", "maintain_weight", "gain_weight"} |->
        CASE g = "lose_weight"     -> -500
          [] g = "maintain_weight" -> 0
          [] g = "gain_weight"     -> 500]

Ratio(p, c, f) ==
    [protein |-> <<0, p, 0, 0, 0>>, carbs |-> <<0, c, 0, 0, 0>>, fat |-> <<0, f, 0, 0, 0>>]

MACRO_RATIOS ==
    [r \in {"balanced", "high_protein", "low_carb", "ketogenic", "mediterranean"} |->
        CASE r = "balanced"      -> Ratio(2500, 4500, 3000)
          [] r = "high_protein"  -> Ratio(3500, 3500, 3000)
          [] r = "low_carb"      -> Ratio(3000, 2000, 5000)
          [] r = "ketogenic"     -> Ratio(2000, 500, 7500)
          [] r = "mediterranean" -> Ratio(2000, 4500, 3500)]

\* BMR_FORMULAS with the constants of the two genders exchanged
BMR_FORMULAS_exchanged(gender, weight, height, age) ==
    LET formula(common) ==
            IF gender = "male" THEN DecSub(common, DecFromInt(161))
            ELSE DecAdd(common, DecFromInt(5))
    IN formula(DecSub(DecAdd(DecMul(weight, DecFromInt(10)),
                             DecMul(height, <<6, 2500, 0, 0, 0>>)),
                      DecFromInt(5 * age)))

\* BMR_FORMULAS["mifflin_st_jeor"]: 10 * weight + 6.25 * height - 5 * age + 5 (male), - 161 (female)
BMR_FORMULAS(gender, weight, height, age) ==
    LET formula(common) ==
            IF gender = "male" THEN DecAdd(common, DecFromInt(5))
            ELSE DecSub(common, DecFromInt(161))
    IN formula(DecSub(DecAdd(DecMul(weight, DecFromInt(10)),
                             DecMul(height, <<6, 2500, 0, 0, 0>>)),
                      DecFromInt(5 * age)))

Raised == [ok |-> FALSE]

Returned(v) == [ok |-> TRUE, value |-> v]

calculate_bmr(weight, height, age, gender) ==
    LET formula(gender_lower) ==
            IF gender_lower \notin {"male", "female"}
            THEN Raised
            ELSE Returned(BMR_FORMULAS(gender_lower, weight, height, age))
    IN formula(Lower(gender))

calculate_tdee(bmr, activity_level) ==
    IF activity_level \notin DOMAIN ACTIVITY_MULTIPLIERS
    THEN Raised
    ELSE Returned(DecMul(bmr, ACTIVITY_MULTIPLIERS[activity_level]))

\* calculate_target_calories taking an unknown goal for maintain_weight
calculate_target_calories_defaulting(tdee, goal) ==
    IF goal \notin DOMAIN WEIGHT_GOALS
    THEN Returned(tdee)
    ELSE Returned(DecAdd(tdee, DecFromInt(WEIGHT_GOALS[goal])))

calculate_target_calories(tdee, goal) ==
    IF goal \notin DOMAIN WEIGHT_GOALS
    THEN Raised
    ELSE Returned(DecAdd(tdee, DecFromInt(WEIGHT_GOALS[goal])))

calculate_macros(calories, macro_ratio) ==
    [protein |-> DecDivInt(DecMul(calories, macro_ratio.protein), 4),
     carbs |-> DecDivInt(DecMul(calories, macro_ratio.carbs), 4),
     fat |-> DecDivInt(DecMul(calories, macro_ratio.fat), 9),
     calories |-> calories]

\* _get_macro_ratio giving the high-protein ratio to gain_weight as well
_get_macro_ratio_protein_for_gain(goal) ==
    IF goal = "lose_weight" THEN MACRO_RATIOS["high_protein"]
    ELSE IF goal = "gain_weight" THEN MACRO_RATIOS["high_protein"]
    ELSE MACRO_RATIOS["balanced"]

_get_macro_ratio(goal) ==
    IF goal = "lose_weight" THEN MACRO_RATIOS["high_protein"]
    ELSE IF goal = "gain_weight" THEN MACRO_RATIOS["balanced"]
    ELSE MACRO_RATIOS["balanced"]

\* sep.join(parts)
Join(parts, sep) ==
    LET F[i \in 0..Len(parts)] ==
            IF i = 0 THEN ""
            ELSE IF i = 1 THEN parts[1]
            ELSE F[i - 1] \o sep \o parts[i]
    IN F[Len(parts)]

required_fields == <<"weight", "height", "age", "gender", "activity", "goal">>

\* MissingFields reporting the first missing field alone
MissingFields_first_only(user_profile) ==
    LET absent(field) == field \notin DOMAIN user_profile
        first(missing) == SubSeq(missing, 1, IF missing = <<>> THEN 0 ELSE 1)
    IN first(SelectSeq(required_fields, absent))

\* the fields calculate_daily_needs finds missing, in the order of required_fields
MissingFields(user_profile) ==
    LET absent(field) == field \notin DOMAIN user_profile
    IN SelectSeq(required_fields, absent)

\* calculate_daily_needs computing tdee from the rounded bmr
calculate_daily_needs_rounding_bmr_first(user_profile) ==
    LET result(bmr, tdee, target_calories, macro_ratio, macros) ==
            [bmr |-> DecRound(bmr),
             tdee |-> DecRound(tdee),
             target_calories |-> DecRound(target_calories),
             macros |-> [protein |-> DecRound(macros.protein),
                         carbs |-> DecRound(macros.carbs),
                         fat |-> DecRound(macros.fat)],
             macro_ratio |-> macro_ratio]
        with_ratio(bmr, tdee, target_calories, macro_ratio) ==
            result(bmr, tdee, target_calories, macro_ratio,
                   calculate_macros(target_calories, macro_ratio))
        with_target(bmr, tdee, target_calories) ==
            IF ~target_calories.ok
            THEN [error |-> "Calculation error: Goal must be one of: ['lose_weight', 'maintain_weight', 'gain_weight']"]
            ELSE with_ratio(bmr, tdee, target_calories.value,
                            _get_macro_ratio(user_profile["goal"]))
        with_tdee(bmr, tdee) ==
            IF ~tdee.ok
            THEN [error |-> "Calculation error: Activity level must be one of: ['sedentary', 'lightly_active', 'moderately_active', 'very_active', 'extremely_active']"]
            ELSE with_target(bmr, tdee.value,
                             calculate_target_calories(tdee.value, user_profile["goal"]))
        with_bmr(bmr) ==
            IF ~bmr.ok
            THEN [error |-> "Calculation error: Gender must be 'male' or 'female'"]
            ELSE with_tdee(bmr.value, calculate_tdee(DecFromInt(DecRound(bmr.value)),
                                                     user_profile["activity"]))
        checked(missing) ==
            IF missing # <<>>
            THEN [error |-> "Missing information: " \o Join(missing, ", ")]
            ELSE with_bmr(calculate_bmr(user_profile["weight"], user_profile["height"],
                                        user_profile["age"], user_profile["gender"]))
    IN checked(MissingFields(user_profile))

calculate_daily_needs(user_profile) ==
    LET result(bmr, tdee, target_calories, macro_ratio, macros) ==
            [bmr |-> DecRound(bmr),
             tdee |-> DecRound(tdee),
             target_calories |-> DecRound(target_calories),
             macros |-> [protein |-> DecRound(macros.protein),
                         carbs |-> DecRound(macros.carbs),
                         fat |-> DecRound(macros.fat)],
             macro_ratio |-> macro_ratio]
        with_ratio(bmr, tdee, target_calories, macro_ratio) ==
            result(bmr, tdee, target_calories, macro_ratio,
                   calculate_macros(target_calories, macro_ratio))
        with_target(bmr, tdee, target_calories) ==
            IF ~target_calories.ok
            THEN [error |-> "Calculation error: Goal must be one of: ['lose_weight', 'maintain_weight', 'gain_weight']"]
            ELSE with_ratio(bmr, tdee, target_calories.value,
                            _get_macro_ratio(user_profile["goal"]))
        with_tdee(bmr, tdee) ==
            IF ~tdee.ok
            THEN [error |-> "Calculation error: Activity level must be one of: ['sedentary', 'lightly_active', 'moderately_active', 'very_active', 'extremely_active']"]
            ELSE with_target(bmr, tdee.value,
                             calculate_target_calories(tdee.value, user_profile["goal"]))
        with_bmr(bmr) ==
            IF ~bmr.ok
            THEN [error |-> "Calculation error: Gender must be 'male' or 'female'"]
            ELSE with_tdee(bmr.value, calculate_tdee(bmr.value, user_profile["activity"]))
        checked(missing) ==
            IF missing # <<>>
            THEN [error |-> "Missing information: " \o Join(missing, ", ")]
            ELSE with_bmr(calculate_bmr(user_profile["weight"], user_profile["height"],
                                        user_profile["age"], user_profile["gender"]))
    IN checked(MissingFields(user_profile))

\* "error" not in daily_needs
IsComputed(daily_needs) == "error" \notin DOMAIN daily_needs

---------------------------------------------------------------------------
(* NutritionExpert: meal suggestions, nutrient sources, templated advice   *)

UpperChar(c) == IF c \in DOMAIN ToUpper THEN ToUpper[c] ELSE c

IsLetter(c) == c \in DOMAIN ToUpper \/ c \in DOMAIN ToLower

\* str.title(): a letter after a non-letter in upper case, every other letter in lower case
Title(s) ==
    LET F[i \in 0..Len(s)] ==
            IF i = 0 THEN ""
            ELSE F[i - 1] \o (IF i = 1 \/ ~IsLetter(CharAt(s, i - 1))
                              THEN UpperChar(CharAt(s, i))
                              ELSE LowerChar(CharAt(s, i)))
    IN F[Len(s)]

\* str.replace(old, new) for a single character old
ReplaceChar(s, old, new) ==
    LET F[i \in 0..Len(s)] ==
            IF i = 0 THEN ""
            ELSE F[i - 1] \o (IF CharAt(s, i) = old THEN new ELSE CharAt(s, i))
    IN F[Len(s)]

\* the keys of COMMON_FOODS
COMMON_FOODS ==
    <<"chicken_breast", "salmon", "eggs", "quinoa", "brown_rice", "broccoli", "spinach",
      "avocado", "almonds", "greek_yogurt", "oats", "banana", "apple", "sweet_potato">>

\* DIETARY_RESTRICTIONS[r]["excluded"]
DIETARY_RESTRICTIONS ==
    [r \in {"vegetarian", "vegan", "gluten_free", "dairy_free"} |->
        CASE r = "vegetarian"  -> {"chicken_breast", "salmon"}
          [] r = "vegan"       -> {"chicken_breast", "salmon", "eggs", "greek_yogurt"}
          [] r = "gluten_free" -> {"oats"}
          [] r = "dairy_free"  -> {"greek_yogurt"}]

VITAMIN_SOURCES ==
    [n \in {"vitamin_c", "vitamin_d", "vitamin_b12", "iron", "calcium", "omega_3",
            "fiber", "potassium"} |->
        CASE n = "vitamin_c"   -> <<"broccoli", "spinach">>
          [] n = "vitamin_d"   -> <<"salmon", "eggs">>
          [] n = "vitamin_b12" -> <<"salmon", "chicken_breast", "eggs">>
          [] n = "iron"        -> <<"spinach", "quinoa", "chicken_breast">>
          [] n = "calcium"     -> <<"greek_yogurt", "almonds", "broccoli">>
          [] n = "omega_3"     -> <<"salmon", "almonds">>
          [] n = "fiber"       -> <<"quinoa", "oats", "avocado", "broccoli">>
          [] n = "potassium"   -> <<"banana", "sweet_potato", "avocado">>]

Meal(meal, ingredients, description, prep_time) ==
    [meal |-> meal, ingredients |-> ingredients,
     description |-> description, prep_time |-> prep_time]

_generate_breakfast_suggestions(foods) ==
    (IF "oats" \in foods
     THEN <<Meal("Protein Overnight Oats", <<"Oats", "Greek Yogurt", "Banana", "Almonds">>,
                 "High-protein breakfast with complex carbs and healthy fats",
                 "5 min prep, overnight rest")>>
     ELSE <<>>)
    \o
    (IF "eggs" \in foods
     THEN <<Meal("Veggie Scramble", <<"Eggs", "Spinach", "Avocado">>,
                 "Protein-rich eggs with nutrient-dense vegetables", "10 minutes")>>
     ELSE <<>>)

_generate_main_meal_suggestions(foods) ==
    (IF "salmon" \in foods
     THEN <<Meal("Baked Salmon Bowl", <<"Salmon", "Quinoa", "Broccoli", "Avocado">>,
                 "Omega-3 rich salmon with complete protein quinoa and fiber-rich vegetables",
                 "25 minutes")>>
     ELSE <<>>)
    \o
    (IF "chicken_breast" \in foods
     THEN <<Meal("Chicken Power Bowl", <<"Chicken Breast", "Brown Rice", "Spinach", "Sweet Potato">>,
                 "Lean protein with complex carbs and antioxidant-rich vegetables",
                 "30 minutes")>>
     ELSE <<>>)

_generate_snack_suggestions ==
    <<Meal("Apple Almond Butter", <<"Apple", "Almonds">>,
           "Balanced snack with fiber and healthy fats", "2 minutes"),
      Meal("Greek Yogurt Parfait", <<"Greek Yogurt", "Banana">>,
           "High-protein snack with natural sweetness", "3 minutes")>>

suggest_meals(dietary_restriction, meal_type) ==
    LET first_six(suggestions) ==
            SubSeq(suggestions, 1, IF Len(suggestions) < 6 THEN Len(suggestions) ELSE 6)
        from(suitable_foods) ==
            first_six((IF meal_type \in {"breakfast", "any"}
                       THEN _generate_breakfast_suggestions(suitable_foods) ELSE <<>>)
                      \o (IF meal_type \in {"lunch", "dinner", "any"}
                          THEN _generate_main_meal_suggestions(suitable_foods) ELSE <<>>)
                      \o (IF meal_type \in {"snack", "any"}
                          THEN _generate_snack_suggestions ELSE <<>>))
        without(excluded_foods) ==
            from({COMMON_FOODS[i] : i \in 1..Len(COMMON_FOODS)} \ excluded_foods)
    IN without(IF dietary_restriction \in DOMAIN DIETARY_RESTRICTIONS
               THEN DIETARY_RESTRICTIONS[dietary_restriction]
               ELSE {})

get_nutrient_sources(nutrient) ==
    LET titled(sources) ==
            [i \in 1..Len(sources) |-> Title(ReplaceChar(sources[i], "_", " "))]
        lookup(nutrient_lower) ==
            IF nutrient_lower \in DOMAIN VITAMIN_SOURCES
            THEN titled(VITAMIN_SOURCES[nutrient_lower])
            ELSE <<>>
    IN lookup(ReplaceChar(Lower(nutrient), " ", "_"))

\* int(ratio * 100)
Percent(ratio) == ToString(DecTrunc(DecMul(ratio, DecFromInt(100))))

CalorieAdviceText(daily_needs) ==
    "Based on your profile, here are your daily needs:\n\n **Daily Calories**: "
    \o ToString(daily_needs.target_calories)
    \o " calories\n **Macronutrient Breakdown**:\n Protein: "
    \o ToString(daily_needs.macros.protein) \o "g (" \o Percent(daily_needs.macro_ratio.protein)
    \o "%)\n Carbs: "
    \o ToString(daily_needs.macros.carbs) \o "g (" \o Percent(daily_needs.macro_ratio.carbs)
    \o "%)\n Fat: "
    \o ToString(daily_needs.macros.fat) \o "g (" \o Percent(daily_needs.macro_ratio.fat)
    \o "%)\n\n **Additional Info**:\n BMR (at rest): "
    \o ToString(daily_needs.bmr) \o " calories\n TDEE (with activity): "
    \o ToString(daily_needs.tdee) \o " calories"

WeightLossText ==
    "For healthy weight loss, aim for:\n\n **Safe Rate**: 1-2 pounds per week\n **Calorie Deficit**: 500-750 calories below maintenance\n **Focus On**:\n High protein to preserve muscle (0.8-1g per lb bodyweight)\n Plenty of vegetables for nutrients and satiety\n Stay hydrated (half your bodyweight in ounces of water)\n Consistent meal timing\n\n Avoid extreme restrictions - sustainable habits lead to lasting results!"

WeightGainText ==
    "For healthy weight gain, consider:\n\n **Safe Rate**: 0.5-1 pound per week\n **Calorie Surplus**: 300-500 calories above maintenance\n **Focus On**:\n Adequate protein for muscle building (1-1.2g per lb bodyweight)\n Complex carbs around workouts\n Healthy fats for hormone production\n Consistent strength training\n\n Quality over quantity - choose nutrient-dense foods!"

ShareStatsText ==
    "I'm here to help with your nutrition goals! For personalized advice, please share:\n\n **Your Stats**: Age, weight, height, gender\n **Activity Level**: Sedentary to very active\n **Goals**: Weight loss, gain, or maintenance\n **Restrictions**: Any dietary limitations or allergies\n\nThe more details you provide, the better I can tailor my recommendations to your needs!"

generate_personalized_advice(user_profile, query_type) ==
    LET advice(daily_needs) ==
            IF query_type = "calorie_calculation" /\ IsComputed(daily_needs)
            THEN CalorieAdviceText(daily_needs)
            ELSE IF query_type = "weight_loss" THEN WeightLossText
            ELSE IF query_type = "weight_gain" THEN WeightGainText
            ELSE ShareStatsText
    IN advice(calculate_daily_needs(user_profile))

---------------------------------------------------------------------------
(* DietChatbot: the response handlers                                      *)

RedirectText ==
    "I'm here to help with nutrition and diet questions. Could you please ask me something about food, nutrition, or healthy eating?"

_format_complete_advice(daily_needs) ==
    "Perfect! Based on your information, here's your personalized nutrition plan:\n\n **Daily Calories**: "
    \o ToString(daily_needs.target_calories)
    \o " calories\n **Macronutrient Breakdown**:\n Protein: "
    \o ToString(daily_needs.macros.protein) \o "g (" \o Percent(daily_needs.macro_ratio.protein)
    \o "%)\n Carbs: "
    \o ToString(daily_needs.macros.carbs) \o "g (" \o Percent(daily_needs.macro_ratio.carbs)
    \o "%)\n Fat: "
    \o ToString(daily_needs.macros.fat) \o "g (" \o Percent(daily_needs.macro_ratio.fat)
    \o "%)\n\n **Your Numbers**:\n BMR (at rest): "
    \o ToString(daily_needs.bmr) \o " calories\n TDEE (with activity): "
    \o ToString(daily_needs.tdee)
    \o " calories\n\n **Next Steps**: Would you like meal suggestions, specific recipes, or have questions about these numbers?"

\* the five fields _ask_for_specific_info looks at, with the name it asks each by
AskedFields ==
    <<[key |-> "age", ask |-> "age"],
      [key |-> "weight", ask |-> "weight"],
      [key |-> "height", ask |-> "height"],
      [key |-> "gender", ask |-> "gender"],
      [key |-> "activity", ask |-> "activity level"]>>

\* have_info: the fields of the profile, formatted
HaveInfo(current_profile) ==
    LET present(f) == f.key \in DOMAIN current_profile
        shown(f) ==
            CASE f.key = "age"      -> "Age: " \o ToString(current_profile["age"])
              [] f.key = "weight"   -> "Weight: " \o ToString(DecRound(current_profile["weight"])) \o " kg"
              [] f.key = "height"   -> "Height: " \o ToString(DecRound(current_profile["height"])) \o " cm"
              [] f.key = "gender"   -> "Gender: " \o current_profile["gender"]
              [] f.key = "activity" -> "Activity: " \o current_profile["activity"]
        formatted(have) == [i \in 1..Len(have) |-> shown(have[i])]
    IN formatted(SelectSeq(AskedFields, present))

\* need_info: the names of the fields the profile lacks
NeedInfo(current_profile) ==
    LET absent(f) == f.key \notin DOMAIN current_profile
        names(need) == [i \in 1..Len(need) |-> need[i].ask]
    IN names(SelectSeq(AskedFields, absent))

\* need_info[0] raises IndexError when need_info is empty
_ask_for_specific_info(missing_info, current_profile) ==
    LET response(have_info, need_info) ==
            IF need_info = <<>>
            THEN Raised
            ELSE Returned(
                     (IF have_info # <<>> THEN "Thanks! I have: " \o Join(have_info, ", ")
                      ELSE "I'm gathering your information.")
                     \o "\n\n I still need your **" \o Join(need_info, " and ")
                     \o "** to calculate your personalized nutrition plan."
                     \o "\n\nCould you tell me your " \o need_info[1] \o "?")
    IN response(HaveInfo(current_profile), NeedInfo(current_profile))

_handle_calorie_query(user_profile) ==
    generate_personalized_advice(user_profile, "calorie_calculation")

MacroRequestText ==
    "To give you personalized macro recommendations, I'd need to know:\n\n Your age, weight, height, and gender\n Your activity level\n Your specific goals (lose weight, gain muscle, maintain)\n\nGenerally, a balanced approach includes:\n **Protein**: 0.8-1.2g per lb bodyweight\n **Carbs**: 45-65% of total calories\n **Fat**: 20-35% of total calories"

_handle_macro_query(user_profile) ==
    LET response(daily_needs) ==
            IF IsComputed(daily_needs)
            THEN "Here's your daily macronutrient breakdown:\n\n **Protein: "
                 \o ToString(daily_needs.macros.protein)
                 \o "g**\n Builds and repairs muscle tissue\n Aim for 20-30g per meal\n Good sources: chicken, fish, eggs, beans, yogurt\n\n **Carbohydrates: "
                 \o ToString(daily_needs.macros.carbs)
                 \o "g**\n Primary energy source for your body\n Focus on complex carbs (oats, quinoa, sweet potato)\n Time around workouts for best utilization\n\n **Fats: "
                 \o ToString(daily_needs.macros.fat)
                 \o "g**\n Essential for hormone production and nutrient absorption\n Include healthy fats: nuts, olive oil, avocado, fatty fish\n About 20-35% of total calories\n\n **Pro tip**: Don't stress about hitting exact numbers daily - focus on weekly averages and listen to your body!"
            ELSE MacroRequestText
    IN response(calculate_daily_needs(user_profile))

_handle_meal_planning(message, user_profile) ==
    LET item(suggestions, i) ==
            "**" \o ToString(i) \o ". " \o suggestions[i].meal \o "**\n"
            \o " Ingredients: " \o Join(suggestions[i].ingredients, ", ") \o "\n"
            \o " " \o suggestions[i].description \o "\n"
            \o " Prep time: " \o suggestions[i].prep_time \o "\n\n"
        response(meal_type, suggestions) ==
            IF suggestions = <<>>
            THEN "I'd love to help with meal planning! Could you tell me about any dietary restrictions or preferences you have?"
            ELSE " **Meal Suggestions for "
                 \o (IF meal_type # "any" THEN Title(meal_type) ELSE "You") \o ":**\n\n"
                 \o Join([i \in 1..Len(suggestions) |-> item(suggestions, i)], "")
                 \o " **Tip**: Prepare ingredients in advance for quicker meal assembly during busy days!"
        plan(dietary_restriction, meal_type) ==
            response(meal_type, suggest_meals(dietary_restriction, meal_type))
        planned(m) ==
            plan(IF "dietary_restriction" \in DOMAIN user_profile
                 THEN user_profile["dietary_restriction"] ELSE "",
                 IF Contains(m, "breakfast") THEN "breakfast"
                 ELSE IF Contains(m, "lunch") THEN "lunch"
                 ELSE IF Contains(m, "dinner") THEN "dinner"
                 ELSE IF Contains(m, "snack") THEN "snack"
                 ELSE "any")
    IN planned(Lower(message))

nutrients ==
    <<"vitamin c", "vitamin d", "vitamin b12", "iron", "calcium", "omega 3", "fiber", "potassium">>

_handle_nutrient_query(message) ==
    LET about(found_nutrient, sources) ==
            IF sources # <<>>
            THEN " **Great sources of " \o Title(found_nutrient) \o ":**\n\n"
                 \o Join([i \in 1..Len(sources) |-> " " \o sources[i]], "\n")
                 \o "\n\n **Tip**: Try to get nutrients from whole foods when possible - they're better absorbed than supplements!"
            ELSE "I'd be happy to help with " \o found_nutrient
                 \o " information! Could you be more specific about what you'd like to know?"
        named(found_nutrient) == about(found_nutrient, get_nutrient_sources(found_nutrient))
        response(found) ==
            IF found # {}
            THEN named(nutrients[Leftmost(found)])
            ELSE "I can help you learn about various nutrients! Some popular ones include:\n\n **Vitamins**: C, D, B12\n **Minerals**: Iron, Calcium, Potassium\n **Essential Fats**: Omega-3 fatty acids\n **Fiber**: For digestive health\n\nWhat specific nutrient would you like to know more about?"
        mentioned(m) == response({i \in 1..Len(nutrients) : Contains(m, nutrients[i])})
    IN mentioned(Lower(message))

_handle_weight_goal_query(query_type, user_profile) ==
    generate_personalized_advice(user_profile, query_type)

_handle_recipe_query ==
    " **Healthy Cooking Tips:**\n\n**Quick & Nutritious Ideas:**\n **Protein + Veggie Bowl**: Any lean protein with roasted vegetables\n **Smoothie**: Protein powder, spinach, berries, almond milk\n **Egg Scramble**: Eggs with whatever vegetables you have on hand\n\n**Cooking Methods for Health:**\n Baking, grilling, or steaming instead of frying\n Use herbs and spices instead of excess salt\n Meal prep 2-3 dishes on Sunday for the week\n\n**Smart Substitutions:**\n Greek yogurt instead of sour cream\n Cauliflower rice instead of regular rice\n Zucchini noodles for pasta\n\nWhat type of dish or cooking method would you like specific guidance on?"

fallback_responses ==
    {"That's a great nutrition question! Could you provide more details so I can give you the best advice?",
     "I'm here to help with your nutrition goals. What specific aspect would you like to focus on?",
     "Thanks for your question! To give you personalized advice, could you share more about your current situation?",
     "I'd love to help you with that! Could you tell me more about your dietary preferences or goals?",
     "That's an interesting nutrition topic. What would you like to know specifically?"}

\* random.choice(fallback_responses): any of them
_generate_fallback_response == fallback_responses

\* first lines the generative model may produce: "" stands for an empty line
AiTexts ==
    {"", "Eating more vegetables is a good place to start.",
     "Sure, tell me about your usual breakfast."}

\* the texts _generate_ai_response may return; a failing model call, or an empty
\* first line, ends in a fallback response
_generate_ai_response ==
    (AiTexts \ {""}) \cup _generate_fallback_response

\* _generate_conversational_response calling the generative model without testing
\* that it is loaded
_generate_conversational_response_unguarded(loaded) ==
    _generate_ai_response \cup _generate_fallback_response

\* the texts _generate_conversational_response may return
_generate_conversational_response(loaded) ==
    IF loaded
    THEN _generate_ai_response \cup _generate_fallback_response
    ELSE _generate_fallback_response

\* the texts _generate_response may return
_generate_response(message, analysis, loaded) ==
    LET respond(query_type, user_profile) ==
            IF query_type = "calorie_calculation" THEN {_handle_calorie_query(user_profile)}
            ELSE IF query_type = "macro_advice" THEN {_handle_macro_query(user_profile)}
            ELSE IF query_type = "meal_planning"
            THEN {_handle_meal_planning(message, user_profile)}
            ELSE IF query_type = "nutrient_advice" THEN {_handle_nutrient_query(message)}
            ELSE IF query_type \in {"weight_loss", "weight_gain"}
            THEN {_handle_weight_goal_query(query_type, user_profile)}
            ELSE IF query_type = "recipe_advice" THEN {_handle_recipe_query}
            ELSE _generate_conversational_response(loaded)
    IN respond(analysis.query_type, analysis.user_profile)

\* the phrases without "please share"
InterviewPhrases_without_share == <<"i need", "what's your", "tell me about">>

InterviewPhrases == <<"i need", "please share", "what's your", "tell me about">>

\* the test of _generate_contextual_response for "the bot previously asked for info":
\* conversation already holds the current user message, so conversation[-2] is read
AskedForInfo(conversation) ==
    /\ Len(conversation) >= 2
    /\ LET asks(last_bot_message) ==
               \E k \in 1..Len(InterviewPhrases) : Contains(last_bot_message, InterviewPhrases[k])
       IN asks(Lower(conversation[Len(conversation) - 1].content))

\* the outcomes of _generate_contextual_response: texts returned, or the exception
_generate_contextual_response(message, analysis, conversation, loaded) ==
    LET follow_up(daily_needs) ==
            IF IsComputed(daily_needs)
            THEN {Returned(_format_complete_advice(daily_needs))}
            ELSE {_ask_for_specific_info(daily_needs.error, analysis.user_profile)}
    IN IF AskedForInfo(conversation)
       THEN follow_up(calculate_daily_needs(analysis.user_profile))
       ELSE {Returned(text) : text \in _generate_response(message, analysis, loaded)}

\* _needs_disclaimer with calorie_calculation left out of the list
_needs_disclaimer_without_calories(query_type) ==
    query_type \in {"weight_loss", "weight_gain", "nutrient_advice"}

_needs_disclaimer(query_type) ==
    query_type \in {"weight_loss", "weight_gain", "nutrient_advice", "calorie_calculation"}

---------------------------------------------------------------------------
(* The catalogue of user messages, and the functions of one message alone  *)
(* computed once per catalogue message                                     *)

MsgLoseWeight == "I want to lose weight"

MsgStatsNoAge == "I'm 25 male 175cm 70kg moderately active"

MsgCalories == "How many calories should I eat?"

MsgStatsCalories ==
    "I am 25 years old male 175cm 70kg moderately active, how many calories?"

MsgAgeGender == "I am a 25 years old male"

MsgRest == "175cm 70kg moderately active, lose weight"

MsgProtein == "How much protein?"

MsgPrescription == "PRESCRIPTION diet calories"

MsgAllCalories ==
    "I am 25 years old male 175cm 70kg moderately active, lose weight, how many calories?"

MsgNewWeight == "Actually I weigh 72kg"

MsgWoman == "I am a 30 years old woman, 5 feet 4 inches, 130 lbs"

MsgDeskJob == "I have a desk job and want to maintain, calories?"

MsgAthlete == "I am an athlete, bulking"

Messages ==
    {MsgLoseWeight, MsgStatsNoAge, MsgCalories, MsgStatsCalories, MsgAgeGender, MsgRest,
     MsgProtein, MsgPrescription, "", "hi "}

\* every message a call is made with in some specification
Catalogue ==
    Messages \cup {MsgAllCalories, MsgNewWeight, MsgWoman, MsgDeskJob, MsgAthlete}

\* validate_user_input(message)
Validated == [m \in Catalogue |-> validate_user_input(m)]

\* extract_user_info(query)
Extracted == [m \in Catalogue |-> extract_user_info(m)]

\* self._classify_query(query.lower())
Classified == [m \in Catalogue |-> _classify_query(Lower(m))]

---------------------------------------------------------------------------
(* State, and the two operations of DietChatbot                            *)

\* conversation_history[user_id] is cut to its last HistoryCap entries
HistoryCap == 20

Turn(role, content) == [role |-> role, content |-> content]

\* d[key] = value, the key created when absent
Put(d, key, value) ==
    [k \in DOMAIN d \cup {key} |-> IF k = key THEN value ELSE d[k]]

\* del d[key]
Del(d, key) == [k \in DOMAIN d \ {key} |-> d[k]]

\* d.get(key, default)
Get(d, key, default) == IF key \in DOMAIN d THEN d[key] ELSE default

\* list[-n:]
Tail_n(list, n) ==
    IF Len(list) <= n THEN list ELSE SubSeq(list, Len(list) - n + 1, Len(list))

NoCall ==
    [op |-> "none", user_id |-> "", message |-> "", valid |-> FALSE,
     outcome |-> "none", response |-> "", needs_disclaimer |-> FALSE,
     query_type |-> "", extracted_info |-> EmptyDict, interview |-> FALSE,
     history_before |-> EmptyDict, profiles_before |-> EmptyDict, prior |-> <<>>]

\* analyze_user_query merging the extracted fields into every stored profile
analyze_user_query_into_all(profiles, query, user_id) ==
    LET result(user_info, merged) ==
            [profiles |-> merged,
             analysis |-> [query_type |-> Classified[query],
                           extracted_info |-> user_info,
                           user_profile |-> merged[user_id]]]
        merge(user_info) ==
            result(user_info,
                   [u \in DOMAIN profiles \cup {user_id} |->
                        Update(Get(profiles, u, EmptyDict), user_info)])
    IN merge(Extracted[query])

\* analyze_user_query dropping from the profile every field that is extracted again
analyze_user_query_toggling(profiles, query, user_id) ==
    LET result(user_info, merged) ==
            [profiles |-> merged,
             analysis |-> [query_type |-> Classified[query],
                           extracted_info |-> user_info,
                           user_profile |-> merged[user_id]]]
        toggled(profile, user_info) ==
            [k \in (DOMAIN profile \cup DOMAIN user_info)
                       \ (DOMAIN profile \cap DOMAIN user_info) |->
                IF k \in DOMAIN user_info THEN user_info[k] ELSE profile[k]]
        merge(user_info) ==
            result(user_info,
                   Put(profiles, user_id,
                       toggled(Get(profiles, user_id, EmptyDict), user_info)))
    IN merge(Extracted[query])

\* analyze_user_query storing the extracted fields in place of the profile, not merged into it
analyze_user_query_overwriting(profiles, query, user_id) ==
    LET result(user_info, stored) ==
            [profiles |-> stored,
             analysis |-> [query_type |-> Classified[query],
                           extracted_info |-> user_info,
                           user_profile |-> stored[user_id]]]
        store(user_info) == result(user_info, Put(profiles, user_id, user_info))
    IN store(Extracted[query])

\* analyze_user_query setting only the fields the profile does not hold yet
analyze_user_query_keeping_existing(profiles, query, user_id) ==
    LET result(user_info, merged) ==
            [profiles |-> merged,
             analysis |-> [query_type |-> Classified[query],
                           extracted_info |-> user_info,
                           user_profile |-> merged[user_id]]]
        merge(user_info) ==
            result(user_info,
                   Put(profiles, user_id, Update(user_info, Get(profiles, user_id, EmptyDict))))
    IN merge(Extracted[query])

\* analyze_user_query handing on the profile as it was before the merge
analyze_user_query_stale_profile(profiles, query, user_id) ==
    LET result(user_info, merged) ==
            [profiles |-> merged,
             analysis |-> [query_type |-> Classified[query],
                           extracted_info |-> user_info,
                           user_profile |-> Get(profiles, user_id, EmptyDict)]]
        merge(user_info) ==
            result(user_info,
                   Put(profiles, user_id, Update(Get(profiles, user_id, EmptyDict), user_info)))
    IN merge(Extracted[query])

\* NutritionExpert.analyze_user_query: the analysis, and the profiles after the merge
analyze_user_query(profiles, query, user_id) ==
    LET result(user_info, merged) ==
            [profiles |-> merged,
             analysis |-> [query_type |-> Classified[query],
                           extracted_info |-> user_info,
                           user_profile |-> merged[user_id]]]
        merge(user_info) ==
            result(user_info,
                   Put(profiles, user_id, Update(Get(profiles, user_id, EmptyDict), user_info)))
    IN merge(Extracted[query])

\* DietChatbot.process_message(message, user_id), from its call to its return
process_message(user_id, message) ==
    LET called == [NoCall EXCEPT !.op = "process_message", !.user_id = user_id,
                                 !.message = message,
                                 !.history_before = conversation_history,
                                 !.profiles_before = user_profiles,
                                 !.prior = [last EXCEPT !.prior = <<>>]]
        \* the rest of the call once the response is generated, or has raised
        finish(conversation, log, answered, result) ==
            IF result.ok
            THEN /\ conversation_history' =
                       Put(conversation_history, user_id,
                           Tail_n(Append(conversation, Turn("assistant", result.value)),
                                  HistoryCap))
                 /\ appended' = Put(appended, user_id,
                                    Append(log, Turn("assistant", result.value)))
                 /\ last' = [answered EXCEPT
                                !.outcome = "returned",
                                !.response = result.value,
                                !.needs_disclaimer = _needs_disclaimer(answered.query_type)]
            ELSE /\ conversation_history' = Put(conversation_history, user_id, conversation)
                 /\ appended' = Put(appended, user_id, log)
                 /\ last' = [answered EXCEPT !.outcome = "raised"]
        generate(conversation, log, analysis) ==
            \E result \in _generate_contextual_response(message, analysis,
                                                        conversation, model_loaded) :
                finish(conversation, log,
                       [called EXCEPT !.valid = TRUE,
                                      !.query_type = analysis.query_type,
                                      !.extracted_info = analysis.extracted_info,
                                      !.interview = AskedForInfo(conversation)],
                       result)
        analyze(conversation, log, analyzed) ==
            /\ user_profiles' = analyzed.profiles
            /\ generate(conversation, log, analyzed.analysis)
        accept(user_turn) ==
            analyze(Append(Get(conversation_history, user_id, <<>>), user_turn),
                    Append(Get(appended, user_id, <<>>), user_turn),
                    analyze_user_query(user_profiles, message, user_id))
    IN
    /\ calls' = calls + 1
    /\ UNCHANGED <<model_loaded, evaluated>>
    /\ IF ~Validated[message]
       THEN /\ last' = [called EXCEPT !.outcome = "returned", !.response = RedirectText,
                                      !.needs_disclaimer = FALSE]
            /\ UNCHANGED <<conversation_history, user_profiles, appended>>
       ELSE accept(Turn("user", message))

\* a call of process_message from outside the interface
ProcessMessage(user_id, message) ==
    /\ process_message(user_id, message)
    /\ UNCHANGED <<in_flight, ui_history>>

\* reset_conversation deleting the history alone, the profile kept
ResetConversation_keeping_profile(user_id) ==
    /\ calls' = calls + 1
    /\ conversation_history' = Del(conversation_history, user_id)
    /\ appended' = Del(appended, user_id)
    /\ last' = [NoCall EXCEPT !.op = "reset_conversation", !.user_id = user_id,
                              !.outcome = "returned",
                              !.history_before = conversation_history,
                              !.profiles_before = user_profiles,
                              !.prior = [last EXCEPT !.prior = <<>>]]
    /\ UNCHANGED <<user_profiles, model_loaded, evaluated, in_flight, ui_history>>

\* DietChatbot.reset_conversation(user_id)
reset_conversation(user_id) ==
    /\ calls' = calls + 1
    /\ conversation_history' = Del(conversation_history, user_id)
    /\ appended' = Del(appended, user_id)
    /\ user_profiles' = Del(user_profiles, user_id)
    /\ last' = [NoCall EXCEPT !.op = "reset_conversation", !.user_id = user_id,
                              !.outcome = "returned",
                              !.history_before = conversation_history,
                              !.profiles_before = user_profiles,
                              !.prior = [last EXCEPT !.prior = <<>>]]
    /\ UNCHANGED <<model_loaded, evaluated>>

\* a call of reset_conversation from outside the interface
ResetConversation(user_id) ==
    /\ reset_conversation(user_id)
    /\ UNCHANGED <<in_flight, ui_history>>

---------------------------------------------------------------------------
(* The dialogue specification: any MaxCalls calls with catalogue messages   *)

MaxCalls == 3

Users == {"u1"}

\* no function has been called on its own
NoEvaluation == [fn |-> "none", args |-> <<>>, done |-> FALSE, result |-> <<>>]

\* DietChatbot.__init__: empty dictionaries; _load_model may or may not find the model
Constructed ==
    /\ conversation_history = EmptyDict
    /\ user_profiles = EmptyDict
    /\ appended = EmptyDict
    /\ model_loaded \in BOOLEAN
    /\ last = NoCall
    /\ calls = 0
    /\ in_flight = EmptyDict
    /\ ui_history = EmptyDict

Init ==
    /\ Constructed
    /\ evaluated = NoEvaluation

Next ==
    \/ \E user_id \in Users, message \in Messages :
            calls < MaxCalls /\ ProcessMessage(user_id, message)
    \/ \E user_id \in Users :
            calls < MaxCalls /\ ResetConversation(user_id)

Spec == Init /\ [][Next]_vars

---------------------------------------------------------------------------
(* The long-dialogue specification: one user, MaxHistCalls calls, each     *)
(* with one of two calorie questions                                       *)

MaxHistCalls == 12

HistMessages == {MsgCalories, MsgStatsCalories}

HistNext ==
    \E message \in HistMessages : calls < MaxHistCalls /\ ProcessMessage("u1", message)

HistSpec == Init /\ [][HistNext]_vars

---------------------------------------------------------------------------
(* Properties of process_message and reset_conversation                    *)

RequiredSet == {required_fields[i] : i \in 1..Len(required_fields)}

\* the text of the most recent assistant turn of a history, "" when it has none
PreviousAssistantText(history) ==
    LET bots == {i \in 1..Len(history) : history[i].role = "assistant"}
    IN IF bots = {} THEN ""
       ELSE history[CHOOSE i \in bots : \A j \in bots : i >= j].content

\* the text holds, in any letter case, one of the four interview phrases
HasInterviewPhrase(text) ==
    LET lowered == Lower(text)
    IN \E phrase \in {"i need", "please share", "what's your", "tell me about"} :
           Contains(lowered, phrase)

\* the user of the last call was, before the call, in a dialogue whose previous
\* assistant response holds an interview phrase
MidInterview ==
    /\ last.user_id \in DOMAIN last.history_before
    /\ HasInterviewPhrase(PreviousAssistantText(last.history_before[last.user_id]))

\* the call that just ended was process_message with a message that passes validation
ValidCall == last.op = "process_message" /\ last.valid

\* C1: process_message never raises an exception for a message that passes
\* validation, in any state reached by earlier process_message and
\* reset_conversation calls, the generative model being absent.
C1_NeverRaises ==
    (ValidCall /\ ~model_loaded) => last.outcome # "raised"

DisallowedTerms == {"medication", "drug", "prescription", "diagnose", "cure", "treat"}

\* the message is empty, shorter than 3 characters once stripped, or holds a
\* disallowed term in any letter case
Rejectable(message) ==
    \/ message = ""
    \/ Len(Strip(message)) < 3
    \/ \E term \in DisallowedTerms : Contains(Lower(message), term)

\* C2: for every message that is empty, shorter than 3 characters after
\* stripping, or holds a disallowed term in any letter case, process_message
\* returns the fixed redirect text with needs_disclaimer false, whatever the
\* user's dialogue state is.
C2_InvalidRedirected ==
    (last.op = "process_message" /\ Rejectable(last.message)) =>
        /\ last.outcome = "returned"
        /\ last.response = RedirectText
        /\ ~last.needs_disclaimer

\* an upper-case "PRESCRIPTION" among calorie words was sent mid-interview
C2_RejectedMidInterview ==
    /\ last.op = "process_message"
    /\ last.message = MsgPrescription
    /\ Rejectable(last.message)
    /\ MidInterview

\* C3: over process_message calls for a user with no reset_conversation in
\* between, the set of fields of the user's stored profile never shrinks: a
\* process_message step keeps every user's profile and every field of it.
C3_FieldsNeverShrink ==
    [][last'.op = "process_message" =>
          \A u \in DOMAIN user_profiles :
              /\ u \in DOMAIN user_profiles'
              /\ DOMAIN user_profiles[u] \subseteq DOMAIN user_profiles'[u]]_vars

\* a profile that held all six required fields went through another valid
\* process_message that extracted a field again
C3_ReadyStaysReady ==
    /\ ValidCall
    /\ last.user_id \in DOMAIN last.profiles_before
    /\ DOMAIN last.profiles_before[last.user_id] = RequiredSet
    /\ last.extracted_info # EmptyDict
    /\ DOMAIN user_profiles[last.user_id] = RequiredSet

\* what process_message(message, user_id) can return for a user never seen before
FreshOutcomes(user_id, message) ==
    _generate_contextual_response(
        message, analyze_user_query(EmptyDict, message, user_id).analysis,
        <<Turn("user", message)>>, model_loaded)

\* the call before the last one was reset_conversation for the same user
AfterReset ==
    /\ last.prior.op = "reset_conversation"
    /\ last.prior.user_id = last.user_id

\* C4: after reset_conversation(u) the user has neither a stored profile nor a
\* stored history, and the next process_message for u goes as for a user never
\* seen before: empty profile before the merge, not mid-interview, the response
\* one a new user gets, and afterwards the profile and history of a first turn.
C4_ResetForgets ==
    /\ last.op = "reset_conversation" =>
          /\ last.user_id \notin DOMAIN user_profiles
          /\ last.user_id \notin DOMAIN conversation_history
    /\ (ValidCall /\ AfterReset) =>
          /\ last.user_id \notin DOMAIN last.profiles_before
          /\ last.user_id \notin DOMAIN last.history_before
          /\ ~last.interview
          /\ last.outcome = "returned"
          /\ Returned(last.response) \in FreshOutcomes(last.user_id, last.message)
          /\ user_profiles[last.user_id] = extract_user_info(last.message)
          /\ conversation_history[last.user_id] =
                 <<Turn("user", last.message), Turn("assistant", last.response)>>

\* a valid message right after a reset that wiped a profile and a history whose
\* previous assistant response held an interview phrase
C4_ResetMidInterview ==
    /\ ValidCall
    /\ AfterReset
    /\ last.user_id \in DOMAIN last.prior.profiles_before
    /\ last.user_id \in DOMAIN last.prior.history_before
    /\ HasInterviewPhrase(PreviousAssistantText(last.prior.history_before[last.user_id]))

\* C5: after any sequence of calls, those ending in an error included, every
\* user's stored history holds at most 20 entries, and they are the most
\* recently appended ones in their original order.
C5_HistoryBounded ==
    \A u \in DOMAIN conversation_history :
        /\ Len(conversation_history[u]) <= 20
        /\ conversation_history[u] = Tail_n(appended[u], 20)

\* the full advice _format_complete_advice writes for the user's stored profile
FullAdvice(user_id) ==
    _format_complete_advice(calculate_daily_needs(user_profiles[user_id]))

\* C6: on a mid-interview turn (the previous assistant response to the user
\* holds an interview phrase), when the stored profile after the merge has all
\* six required fields, the response is the full formatted advice, whatever the
\* query type of the message.
C6_CompleteProfileGetsAdvice ==
    (ValidCall /\ MidInterview /\ DOMAIN user_profiles[last.user_id] = RequiredSet) =>
        /\ last.outcome = "returned"
        /\ last.response = FullAdvice(last.user_id)

\* the name a follow-up asks a required field by
FieldName ==
    [age |-> "age", weight |-> "weight", height |-> "height", gender |-> "gender",
     activity |-> "activity level", goal |-> "goal"]

\* the label a follow-up lists a known field under
FieldLabel ==
    [age |-> "Age: ", weight |-> "Weight: ", height |-> "Height: ", gender |-> "Gender: ",
     activity |-> "Activity: ", goal |-> "Goal: "]

\* the text between the first `open` and the next `close`, "" when there is none
Between(text, open, close) ==
    LET starts == {i \in 1..Len(text) : MatchesAt(text, i, open)}
    IN IF starts = {} THEN ""
       ELSE LET from == Leftmost(starts) + Len(open)
                ends == {j \in from..Len(text) : MatchesAt(text, j, close)}
            IN IF ends = {} THEN "" ELSE SubSeq(text, from, Leftmost(ends) - 1)

\* the fields a follow-up names as still needed
NamedAsMissing(response) ==
    LET named == Between(response, "I still need your **", "**")
    IN {f \in RequiredSet : Contains(named, FieldName[f])}

\* C7: on a mid-interview turn where the merged profile is still incomplete,
\* the follow-up names exactly the required fields missing from the profile
\* and lists the fields already known.
C7_FollowUpNamesMissing ==
    (ValidCall /\ MidInterview /\ DOMAIN user_profiles[last.user_id] # RequiredSet) =>
        /\ last.outcome = "returned"
        /\ NamedAsMissing(last.response) = RequiredSet \ DOMAIN user_profiles[last.user_id]
        /\ \A f \in DOMAIN user_profiles[last.user_id] :
               Contains(last.response, FieldLabel[f])

\* the response is a full advice with `calories` daily calories and the
\* high-protein ratio: 35% protein, 35% carbs, 30% fat
AdviceWith(response, calories) ==
    /\ Contains(response, "**Daily Calories**: " \o ToString(calories) \o " calories")
    /\ \E protein, carbs, fat \in 1..400 :
           /\ Contains(response, "Protein: " \o ToString(protein) \o "g (35%)")
           /\ Contains(response, "Carbs: " \o ToString(carbs) \o "g (35%)")
           /\ Contains(response, "Fat: " \o ToString(fat) \o "g (30%)")
    /\ Contains(response, "BMR (at rest): ")
    /\ Contains(response, "TDEE (with activity): ")

\* C8: for a brand-new user, "I want to lose weight" and then "I'm 25 male
\* 175cm 70kg moderately active" yield, on the second turn, a full advice with
\* target calories of about 2095 and the 35/35/30 macro breakdown.
C8_ScenarioYieldsAdvice ==
    (/\ calls = 2
     /\ ValidCall /\ last.message = MsgStatsNoAge
     /\ last.prior.op = "process_message" /\ last.prior.valid
     /\ last.prior.user_id = last.user_id /\ last.prior.message = MsgLoseWeight) =>
        /\ last.outcome = "returned"
        /\ \E calories \in 2090..2100 : AdviceWith(last.response, calories)

\* the assistant's text asks the user for missing profile fields: the targeted
\* follow-up of the interview branch, or the macro-advice request
AsksForFields(text) ==
    \/ Contains(text, "I still need your **")
    \/ text = MacroRequestText

\* C9: after the assistant has asked the user for missing profile fields, the
\* user's next valid message is handled by the mid-interview branch, so the
\* turn on which the profile becomes complete delivers the full advice.
C9_AskingKeepsInterview ==
    (/\ ValidCall
     /\ last.user_id \in DOMAIN last.history_before
     /\ LET history == last.history_before[last.user_id]
        IN /\ history # <<>>
           /\ history[Len(history)].role = "assistant"
           /\ AsksForFields(history[Len(history)].content)) =>
        /\ last.interview
        /\ DOMAIN user_profiles[last.user_id] = RequiredSet =>
               /\ last.outcome = "returned"
               /\ last.response = FullAdvice(last.user_id)

MedicalQueryTypes == {"weight_loss", "weight_gain", "nutrient_advice", "calorie_calculation"}

\* C10: for every valid message the needs_disclaimer flag process_message
\* returns is true exactly when the query type of the message is weight_loss,
\* weight_gain, nutrient_advice or calorie_calculation, whichever branch wrote
\* the response.
C10_DisclaimerByQueryType ==
    (ValidCall /\ last.outcome = "returned") =>
        (last.needs_disclaimer <=> _classify_query(Lower(last.message)) \in MedicalQueryTypes)

\* the interview branch answered a calorie question, and the flag is set
C10_InterviewDisclaimer ==
    /\ ValidCall
    /\ last.interview
    /\ last.outcome = "returned"
    /\ _classify_query(Lower(last.message)) = "calorie_calculation"
    /\ last.needs_disclaimer

---------------------------------------------------------------------------
(* The classifier on its own: _classify_query applied to one lower-case    *)
(* text made of one or two words or phrases                                *)

\* a function about to be called on its own with these arguments
Pending(fn, args) == [fn |-> fn, args |-> args, done |-> FALSE, result |-> <<>>]

\* the variables of the chatbot and of the interface, which a function called on its
\* own leaves alone
chatbot_vars ==
    <<conversation_history, user_profiles, model_loaded, appended, last, calls, in_flight,
      ui_history>>

ClassifyWords ==
    <<"calories", "recipe", "protein", "menu", "vitamin", "diet", "muscle", "hello",
      "breakfast", "diet plan">>

ClassifyTexts ==
    {ClassifyWords[i] : i \in 1..Len(ClassifyWords)}
    \cup {ClassifyWords[i] \o " " \o ClassifyWords[j] :
              i \in 1..Len(ClassifyWords), j \in 1..Len(ClassifyWords)}

ClassifyInit ==
    /\ Constructed
    /\ evaluated \in {Pending("_classify_query", <<text>>) : text \in ClassifyTexts}

\* NutritionExpert._classify_query(query)
ClassifyQuery ==
    /\ evaluated.fn = "_classify_query"
    /\ ~evaluated.done
    /\ evaluated' = [evaluated EXCEPT !.done = TRUE,
                                      !.result = _classify_query(evaluated.args[1])]
    /\ UNCHANGED chatbot_vars

ClassifySpec == ClassifyInit /\ [][ClassifyQuery]_vars

\* the seven intents in the order of their rules
IntentOrder ==
    <<"calorie_calculation", "macro_advice", "meal_planning", "nutrient_advice",
      "weight_loss", "weight_gain", "recipe_advice">>

\* the keywords of each intent
IntentKeywords ==
    [calorie_calculation |-> {"calorie", "calories", "bmr", "tdee", "metabolic rate"},
     macro_advice |-> {"protein", "carb", "fat", "macro", "macronutrient"},
     meal_planning |-> {"meal plan", "diet plan", "what to eat", "menu"},
     nutrient_advice |-> {"vitamin", "mineral", "nutrient", "deficiency"},
     weight_loss |-> {"lose weight", "weight loss", "diet", "cutting"},
     weight_gain |-> {"gain weight", "bulk", "muscle", "gain muscle"},
     recipe_advice |-> {"recipe", "cook", "food", "ingredient"}]

\* the text holds a keyword of the k-th intent
HoldsKeyword(text, k) == \E w \in IntentKeywords[IntentOrder[k]] : Contains(text, w)

\* _classify_query has been called on its own and has returned
ClassifierReturned == evaluated.fn = "_classify_query" /\ evaluated.done

\* C11: the classifier is first-match-wins over the seven keyword sets in the
\* order calorie_calculation, macro_advice, meal_planning, nutrient_advice,
\* weight_loss, weight_gain, recipe_advice: it returns the k-th intent exactly
\* when the text holds a keyword of the k-th set and none of an earlier set,
\* general_nutrition exactly when it holds no keyword, and calorie_calculation
\* for a text holding both "calories" and "recipe".
C11_FirstMatchWins ==
    ClassifierReturned =>
        /\ \A k \in 1..Len(IntentOrder) :
               evaluated.result = IntentOrder[k] <=>
                   /\ HoldsKeyword(evaluated.args[1], k)
                   /\ \A j \in 1..(k - 1) : ~HoldsKeyword(evaluated.args[1], j)
        /\ evaluated.result = "general_nutrition" <=>
               \A k \in 1..Len(IntentOrder) : ~HoldsKeyword(evaluated.args[1], k)
        /\ (Contains(evaluated.args[1], "calories") /\ Contains(evaluated.args[1], "recipe"))
               => evaluated.result = "calorie_calculation"

\* "recipe calories", the recipe keyword first in the text, was classified
C11_RecipeThenCalories ==
    /\ ClassifierReturned
    /\ evaluated.args[1] = "recipe calories"
    /\ evaluated.result = "calorie_calculation"

---------------------------------------------------------------------------
(* The calculators on their own: calculate_daily_needs on a profile holding *)
(* any part of the six fields, and calculate_bmr, calculate_tdee,           *)
(* calculate_target_calories, calculate_macros and _get_macro_ratio on      *)
(* their arguments.  The values include ones outside the vocabularies.      *)

CalcWeights == {DecFromInt(70), <<55, 5000, 0, 0, 0>>}

CalcHeights == {DecFromInt(175), DecFromInt(160)}

CalcAges == {25, 40}

CalcGenders == {"male", "female", "Male", "other"}

CalcActivities == DOMAIN ACTIVITY_MULTIPLIERS \cup {"lazy"}

CalcGoals == DOMAIN WEIGHT_GOALS \cup {"gain_muscle"}

\* the value that stands for a key the profile does not hold
AbsentOf ==
    [weight |-> <<>>, height |-> <<>>, age |-> -1, gender |-> "", activity |-> "",
     goal |-> ""]

\* for each of the six keys, a value or the mark of its absence
ProfileChoices ==
    [weight : CalcWeights \cup {AbsentOf.weight},
     height : CalcHeights \cup {AbsentOf.height},
     age : CalcAges \cup {AbsentOf.age},
     gender : CalcGenders \cup {AbsentOf.gender},
     activity : CalcActivities \cup {AbsentOf.activity},
     goal : CalcGoals \cup {AbsentOf.goal}]

\* the dict that holds the keys chosen present
ProfileOf(choice) ==
    [field \in {f \in DOMAIN choice : choice[f] # AbsentOf[f]} |-> choice[field]]

CalcProfiles == {ProfileOf(choice) : choice \in ProfileChoices}

\* values of bmr, tdee and calories passed to the calculators called on their own
CalcEnergies == {<<1673, 7500, 0, 0, 0>>, <<1512, 7500, 0, 0, 0>>, DecFromInt(2000)}

CalcInit ==
    /\ Constructed
    /\ evaluated \in
          {Pending("calculate_daily_needs", <<user_profile>>) : user_profile \in CalcProfiles}
          \cup {Pending("calculate_bmr", <<weight, height, age, gender>>) :
                    weight \in CalcWeights, height \in CalcHeights,
                    age \in CalcAges, gender \in CalcGenders}
          \cup {Pending("calculate_tdee", <<bmr, activity_level>>) :
                    bmr \in CalcEnergies, activity_level \in CalcActivities}
          \cup {Pending("calculate_target_calories", <<tdee, goal>>) :
                    tdee \in CalcEnergies, goal \in CalcGoals}
          \cup {Pending("calculate_macros", <<calories, MACRO_RATIOS[r]>>) :
                    calories \in CalcEnergies, r \in DOMAIN MACRO_RATIOS}
          \cup {Pending("_get_macro_ratio", <<goal>>) : goal \in CalcGoals}

\* the function named fn is called on its own and ends with this result
Evaluate(fn, result) ==
    /\ evaluated.fn = fn
    /\ ~evaluated.done
    /\ evaluated' = [evaluated EXCEPT !.done = TRUE, !.result = result]
    /\ UNCHANGED chatbot_vars

CalculateDailyNeeds ==
    Evaluate("calculate_daily_needs", calculate_daily_needs(evaluated.args[1]))

CalculateBmr ==
    Evaluate("calculate_bmr",
             calculate_bmr(evaluated.args[1], evaluated.args[2],
                           evaluated.args[3], evaluated.args[4]))

CalculateTdee ==
    Evaluate("calculate_tdee", calculate_tdee(evaluated.args[1], evaluated.args[2]))

CalculateTargetCalories ==
    Evaluate("calculate_target_calories",
             calculate_target_calories(evaluated.args[1], evaluated.args[2]))

CalculateMacros ==
    Evaluate("calculate_macros", calculate_macros(evaluated.args[1], evaluated.args[2]))

GetMacroRatio ==
    Evaluate("_get_macro_ratio", _get_macro_ratio(evaluated.args[1]))

CalcNext ==
    \/ CalculateDailyNeeds
    \/ CalculateBmr
    \/ CalculateTdee
    \/ CalculateTargetCalories
    \/ CalculateMacros
    \/ GetMacroRatio

CalcSpec == CalcInit /\ [][CalcNext]_vars

---------------------------------------------------------------------------
(* Properties of the calculators                                           *)

\* calculate_daily_needs has been called on its own and has returned
DailyNeedsReturned == evaluated.fn = "calculate_daily_needs" /\ evaluated.done

\* the values of the three enumerated fields
EnumValues ==
    [gender |-> {"male", "female"},
     activity |-> {"sedentary", "lightly_active", "moderately_active", "very_active",
                   "extremely_active"},
     goal |-> {"lose_weight", "maintain_weight", "gain_weight"}]

\* every enumerated field the profile holds has a value of its enumeration
WellTyped(profile) ==
    \A f \in DOMAIN EnumValues \cap DOMAIN profile : profile[f] \in EnumValues[f]

\* the result holds the computed numbers
HasNumbers(result) ==
    {"bmr", "tdee", "target_calories", "macros", "macro_ratio"} \subseteq DOMAIN result

MissingPrefix == "Missing information: "

\* the result is an incomplete one, and these are the fields it names
IsIncomplete(result) ==
    /\ DOMAIN result = {"error"}
    /\ MatchesAt(result.error, 1, MissingPrefix)

NamedIn(result) ==
    {f \in RequiredSet :
        Contains(SubSeq(result.error, Len(MissingPrefix) + 1, Len(result.error)), f)}

Ended(fn) == evaluated.fn = fn /\ evaluated.done

\* a gender that is neither male nor female in any letter case
UnknownGender(gender) == Lower(gender) \notin EnumValues.gender

\* the profile holds a gender, an activity level or a goal outside its enumeration
HoldsUnknownValue(profile) ==
    \/ UnknownGender(profile["gender"])
    \/ profile["activity"] \notin EnumValues.activity
    \/ profile["goal"] \notin EnumValues.goal

\* C15: calculate_bmr on an unknown gender, calculate_tdee on an unknown
\* activity level and calculate_target_calories on an unknown goal each raise,
\* and calculate_daily_needs on a six-field profile holding such a value
\* returns an error result and no computed numbers.
C15_UnknownValuesFail ==
    /\ (Ended("calculate_bmr") /\ UnknownGender(evaluated.args[4])) => ~evaluated.result.ok
    /\ (Ended("calculate_tdee") /\ evaluated.args[2] \notin EnumValues.activity)
           => ~evaluated.result.ok
    /\ (Ended("calculate_target_calories") /\ evaluated.args[2] \notin EnumValues.goal)
           => ~evaluated.result.ok
    /\ (/\ Ended("calculate_daily_needs")
        /\ DOMAIN evaluated.args[1] = RequiredSet
        /\ HoldsUnknownValue(evaluated.args[1])) =>
           /\ DOMAIN evaluated.result = {"error"}
           /\ MatchesAt(evaluated.result.error, 1, "Calculation error: ")

\* a six-field profile whose goal alone is outside the enumeration got an error result
C15_UnknownGoalInProfile ==
    /\ Ended("calculate_daily_needs")
    /\ DOMAIN evaluated.args[1] = RequiredSet
    /\ ~UnknownGender(evaluated.args[1]["gender"])
    /\ evaluated.args[1]["activity"] \in EnumValues.activity
    /\ evaluated.args[1]["goal"] = "gain_muscle"
    /\ DOMAIN evaluated.result = {"error"}

\* the decimal has at most two digits after the point
InHundredths(d) == d[2] % 100 = 0 /\ \A j \in 3..5 : d[j] = 0

\* the number of hundredths of such a decimal
Hundredths(d) == d[1] * 100 + d[2] \div 100

\* 100 * (10*w + 6.25*h - 5*a), for w in hundredths and h a whole number
MifflinCommon(weight, height, age) ==
    10 * Hundredths(weight) + 625 * height[1] - 500 * age

\* calculate_bmr has returned the value of the formula, and for w = 70, h = 175,
\* a = 25 the values male and female
FollowsMifflin(male, female) ==
    (Ended("calculate_bmr") /\ ~UnknownGender(evaluated.args[4])) =>
        /\ evaluated.result.ok
        /\ InHundredths(evaluated.result.value)
        /\ Hundredths(evaluated.result.value) =
               MifflinCommon(evaluated.args[1], evaluated.args[2], evaluated.args[3])
               + (IF Lower(evaluated.args[4]) = "male" THEN 500 ELSE -16100)
        /\ (evaluated.args[1] = DecFromInt(70) /\ evaluated.args[2] = DecFromInt(175)
                /\ evaluated.args[3] = 25) =>
               /\ evaluated.args[4] = "male" =>
                      /\ evaluated.result.value = male
                      /\ DecRound(evaluated.result.value) = DecRound(male)
               /\ evaluated.args[4] = "female" =>
                      /\ evaluated.result.value = female
                      /\ DecRound(evaluated.result.value) = DecRound(female)

\* the claim as written - BMR is 10*w + 6.25*h - 5*a + 5 for male and
\* 10*w + 6.25*h - 5*a - 161 for female, and for w = 70, h = 175, a = 25 it is
\* 1673.75 for male and 1512.75 for female
C18_FemaleAsWritten ==
    FollowsMifflin(<<1673, 7500, 0, 0, 0>>, <<1512, 7500, 0, 0, 0>>)

\* C18: calculate_bmr follows Mifflin-St Jeor, 10*w + 6.25*h - 5*a + 5 for
\* male and 10*w + 6.25*h - 5*a - 161 for female; for w = 70, h = 175, a = 25
\* it is 1673.75 (1674 rounded) for male and 1507.75 (1508 rounded) for female.
C18_MifflinStJeor ==
    /\ FollowsMifflin(<<1673, 7500, 0, 0, 0>>, <<1507, 7500, 0, 0, 0>>)
    /\ DecRound(<<1673, 7500, 0, 0, 0>>) = 1674
    /\ DecRound(<<1507, 7500, 0, 0, 0>>) = 1508

\* calculate_bmr(70, 175, 25, "female") has returned
C18_FemaleExample ==
    /\ Ended("calculate_bmr")
    /\ evaluated.args = <<DecFromInt(70), DecFromInt(175), 25, "female">>
    /\ evaluated.result.ok

\* the multipliers, in thousandths
MultiplierThousandths ==
    [sedentary |-> 1200, lightly_active |-> 1375, moderately_active |-> 1550,
     very_active |-> 1725, extremely_active |-> 1900]

\* the calories added for each goal
GoalDelta == [lose_weight |-> -500, maintain_weight |-> 0, gain_weight |-> 500]

\* n / scale rounded to the nearest integer, a tie to the even one, for n >= 0
RoundedQuotient(n, scale) ==
    IF 2 * (n % scale) > scale \/ (2 * (n % scale) = scale /\ (n \div scale) % 2 = 1)
    THEN n \div scale + 1
    ELSE n \div scale

\* 100 * bmr of a profile, by the formulas of C18
BmrHundredths(profile) ==
    MifflinCommon(profile["weight"], profile["height"], profile["age"])
    + (IF Lower(profile["gender"]) = "male" THEN 500 ELSE -16100)

\* 100000 * tdee of a profile: the unrounded bmr times the multiplier
TdeeUnrounded(profile) ==
    BmrHundredths(profile) * MultiplierThousandths[profile["activity"]]

\* 100000 * target calories of a profile
TargetUnrounded(profile) == TdeeUnrounded(profile) + 100000 * GoalDelta[profile["goal"]]

\* 100000 * tdee when it is computed from the rounded bmr
TdeeFromRoundedBmr(profile) ==
    100 * RoundedQuotient(BmrHundredths(profile), 100)
        * MultiplierThousandths[profile["activity"]]

\* the decimal of n / 100000
FromHundredThousandths(n) ==
    <<n \div 100000, (n % 100000) \div 10, (n % 10) * 1000, 0, 0>>

\* the grams of the three macros, each rounded, for unrounded calories and a ratio
RoundedGrams(calories, ratio) ==
    [protein |-> DecRound(DecDivInt(DecMul(calories, ratio.protein), 4)),
     carbs |-> DecRound(DecDivInt(DecMul(calories, ratio.carbs), 4)),
     fat |-> DecRound(DecDivInt(DecMul(calories, ratio.fat), 9))]

\* calculate_daily_needs has returned computed numbers
DailyNeedsComputed == DailyNeedsReturned /\ HasNumbers(evaluated.result)

\* C19: calculate_daily_needs computes tdee = bmr * multiplier (1.2, 1.375,
\* 1.55, 1.725, 1.9) and target = tdee + delta (-500, 0, +500) on unrounded
\* values and rounds only the bmr, tdee, target calories and macro grams it
\* returns: the returned tdee is round(unrounded bmr * multiplier), also where
\* round(bmr) * multiplier rounds to another number.
C19_RoundedAtTheEnd ==
    DailyNeedsComputed =>
        /\ evaluated.result.bmr = RoundedQuotient(BmrHundredths(evaluated.args[1]), 100)
        /\ evaluated.result.tdee = RoundedQuotient(TdeeUnrounded(evaluated.args[1]), 100000)
        /\ evaluated.result.target_calories =
               RoundedQuotient(TargetUnrounded(evaluated.args[1]), 100000)
        /\ evaluated.result.macros =
               RoundedGrams(FromHundredThousandths(TargetUnrounded(evaluated.args[1])),
                            evaluated.result.macro_ratio)

\* computed numbers for a profile whose tdee from the rounded bmr rounds to
\* another number than the tdee returned
C19_RoundedBmrDiffers ==
    /\ DailyNeedsComputed
    /\ RoundedQuotient(TdeeFromRoundedBmr(evaluated.args[1]), 100000) # evaluated.result.tdee

\* the ratio stated for each of the three goals
StatedRatio(goal) ==
    IF goal = "lose_weight" THEN Ratio(3500, 3500, 3000) ELSE Ratio(2500, 4500, 3000)

\* grams * kcal_per_gram is calories * fraction, up to the last digit kept by
\* the division
GramsOf(grams, kcal_per_gram, calories, fraction) ==
    LET within(product, back) ==
            /\ ~DecLess(product, back)
            /\ DecLess(DecSub(product, back), <<0, 0, 0, 0, kcal_per_gram>>)
    IN  within(DecMul(calories, fraction), DecMul(grams, DecFromInt(kcal_per_gram)))

\* grams * 4 is calories * fraction exactly
ExactGramsOf(grams, calories, fraction) ==
    DecMul(grams, DecFromInt(4)) = DecMul(calories, fraction)

\* C20: goal lose_weight uses the ratio protein 0.35 / carbs 0.35 / fat 0.30,
\* goals gain_weight and maintain_weight use protein 0.25 / carbs 0.45 /
\* fat 0.30; grams are calories * ratio / 4 for protein and carbs and
\* calories * ratio / 9 for fat, and each selected ratio's fractions sum to 1.
C20_MacroSelectionAndGrams ==
    /\ (Ended("_get_macro_ratio") /\ evaluated.args[1] \in EnumValues.goal) =>
           /\ evaluated.result = StatedRatio(evaluated.args[1])
           /\ DecAdd(DecAdd(evaluated.result.protein, evaluated.result.carbs),
                     evaluated.result.fat) = DecFromInt(1)
    /\ (DailyNeedsComputed /\ evaluated.args[1]["goal"] \in EnumValues.goal) =>
           /\ evaluated.result.macro_ratio = StatedRatio(evaluated.args[1]["goal"])
           /\ DecAdd(DecAdd(evaluated.result.macro_ratio.protein,
                            evaluated.result.macro_ratio.carbs),
                     evaluated.result.macro_ratio.fat) = DecFromInt(1)
    /\ Ended("calculate_macros") =>
           /\ ExactGramsOf(evaluated.result.protein, evaluated.args[1],
                           evaluated.args[2].protein)
           /\ ExactGramsOf(evaluated.result.carbs, evaluated.args[1],
                           evaluated.args[2].carbs)
           /\ GramsOf(evaluated.result.fat, 9, evaluated.args[1], evaluated.args[2].fat)
           /\ evaluated.result.calories = evaluated.args[1]

\* the grams of 1673.75 kcal in the high-protein ratio, the fat a repeating
\* decimal
C20_HighProteinGrams ==
    /\ Ended("calculate_macros")
    /\ evaluated.args = <<<<1673, 7500, 0, 0, 0>>, StatedRatio("lose_weight")>>
    /\ evaluated.result.protein = <<146, 4531, 2500, 0, 0>>
    /\ DecMul(evaluated.result.fat, DecFromInt(9)) # DecMul(evaluated.args[1], evaluated.args[2].fat)

---------------------------------------------------------------------------
(* The two-user specification: MaxTwoCalls calls, each by one of two users  *)

MaxTwoCalls == 4

TwoUsers == {"u1", "u2"}

TwoMessages == {MsgCalories, MsgStatsCalories, MsgRest, MsgPrescription}

TwoNext ==
    \/ \E user_id \in TwoUsers, message \in TwoMessages :
            calls < MaxTwoCalls /\ ProcessMessage(user_id, message)
    \/ \E user_id \in TwoUsers :
            calls < MaxTwoCalls /\ ResetConversation(user_id)

TwoSpec == Init /\ [][TwoNext]_vars

\* a dict without the keys of every user but user_id
Own(d, user_id) == [u \in DOMAIN d \cap {user_id} |-> d[u]]

\* what process_message(message, user_id) can do when the chatbot holds
\* nothing but the user's own profile and history
OwnOutcomes(user_id, message) ==
    _generate_contextual_response(
        message,
        analyze_user_query(Own(last.profiles_before, user_id), message, user_id).analysis,
        Append(Get(Own(last.history_before, user_id), user_id, <<>>), Turn("user", message)),
        model_loaded)

\* the outcome of the last call, as _generate_contextual_response gives it
LastOutcome ==
    IF last.outcome = "returned" THEN Returned(last.response) ELSE Raised

\* C13: process_message and reset_conversation for a user leave the stored
\* profile and history of every other user as they were, and what
\* process_message returns is what it returns when the chatbot holds the
\* calling user's profile and history alone.
C13_UsersDoNotInterfere ==
    last.op \in {"process_message", "reset_conversation"} =>
        /\ \A other \in TwoUsers \ {last.user_id} :
               /\ Own(user_profiles, other) = Own(last.profiles_before, other)
               /\ Own(conversation_history, other) = Own(last.history_before, other)
        /\ ValidCall => LastOutcome \in OwnOutcomes(last.user_id, last.message)

\* a user's first calorie question was answered as a first turn while the other
\* user, with a stored profile, was in the middle of an interview
C13_OtherMidInterview ==
    /\ ValidCall
    /\ last.outcome = "returned"
    /\ last.user_id \notin DOMAIN last.history_before
    /\ ~last.interview
    /\ \E other \in TwoUsers \ {last.user_id} :
           /\ other \in DOMAIN user_profiles
           /\ user_profiles[other] # EmptyDict
           /\ other \in DOMAIN conversation_history
           /\ HasInterviewPhrase(PreviousAssistantText(conversation_history[other]))

---------------------------------------------------------------------------
(* Properties of the profile merge and of the conversational fallback      *)

\* the last two calls were process_message for the same user with the same text
SameTextTwice ==
    /\ last.op = "process_message"
    /\ last.prior.op = "process_message"
    /\ last.prior.user_id = last.user_id
    /\ last.prior.message = last.message

\* C14: processing the same text twice in a row for a user leaves the stored
\* profile equal to the profile after processing it once.
C14_MergeIdempotent ==
    SameTextTwice =>
        Own(user_profiles, last.user_id) = Own(last.profiles_before, last.user_id)

\* a text with fields the profile lacked, or held with other values, was
\* processed twice: the first call changed the profile
C14_SecondMergeOfNewFields ==
    /\ SameTextTwice
    /\ last.valid
    /\ last.extracted_info # EmptyDict
    /\ Own(last.prior.profiles_before, last.user_id) # Own(last.profiles_before, last.user_id)
    /\ last.user_id \in DOMAIN last.prior.profiles_before

\* the texts that only the generative model writes
GenerativeTexts == AiTexts \ {""}

\* the last call was a valid message classified general_nutrition on a turn
\* that is not an interview turn
ConversationalTurn ==
    /\ ValidCall
    /\ last.query_type = "general_nutrition"
    /\ ~last.interview

\* C16: a response written by the generative model is returned only for a
\* message classified general_nutrition on a non-interview turn with the model
\* loaded; on such a turn no error reaches the caller, and the response is one
\* of the fixed fallback responses when the model is absent, and a fallback
\* response or a text of the model when it is loaded (its call may fail).
C16_ModelOnlyForGeneral ==
    /\ (ValidCall /\ last.outcome = "returned" /\ last.response \in GenerativeTexts)
           => ConversationalTurn /\ model_loaded
    /\ ConversationalTurn =>
           /\ last.outcome = "returned"
           /\ ~model_loaded => last.response \in fallback_responses
           /\ model_loaded => last.response \in fallback_responses \cup GenerativeTexts

\* with the model loaded, a general message on a non-interview turn was answered
\* by a fallback response: the call of the model failed or wrote an empty line
C16_LoadedModelFellBack ==
    /\ ConversationalTurn
    /\ model_loaded
    /\ last.response \in fallback_responses

---------------------------------------------------------------------------
(* The extractor on its own: extract_user_info applied to one text that    *)
(* gives a weight, alone or in a sentence                                  *)

WeightNumbers == <<"70", "154", "154.3", "69.85", "150", "72.5">>

WeightUnitTexts == <<"kg", " kg", "lbs", " lbs", "lb", " pounds", " pound", " Kg", " LBS">>

WeightTexts ==
    {prefix \o WeightNumbers[i] \o WeightUnitTexts[j] :
        prefix \in {"", "I weigh "},
        i \in 1..Len(WeightNumbers), j \in 1..Len(WeightUnitTexts)}

ExtractInit ==
    /\ Constructed
    /\ evaluated \in {Pending("extract_user_info", <<text>>) : text \in WeightTexts}

\* extract_user_info(text)
ExtractUserInfo ==
    Evaluate("extract_user_info", extract_user_info(evaluated.args[1]))

ExtractSpec == ExtractInit /\ [][ExtractUserInfo]_vars

\* lo <= x <= hi
DecWithin(x, lo, hi) == ~DecLess(x, lo) /\ ~DecLess(hi, x)

\* extract_user_info has returned the weight of one of the two texts
TwoWeightTexts == {"70kg", "154 lbs"}

\* the claim as written - for each of the inputs "70kg" and "154 lbs" the
\* extracted weight in kilograms is within 0.01 of 70
C17_WithinHundredthOfSeventy ==
    (Ended("extract_user_info") /\ evaluated.args[1] \in TwoWeightTexts) =>
        /\ "weight" \in DOMAIN evaluated.result
        /\ DecWithin(evaluated.result["weight"], <<69, 9900, 0, 0, 0>>, <<70, 100, 0, 0, 0>>)

\* C17: for the input "70kg" the extracted weight is 70 kilograms; for
\* "154 lbs" it is 154 * 0.453592 = 69.853168 kilograms, which is within 0.15
\* of 70 and not within 0.01.
C17_PoundsByFactor ==
    /\ (Ended("extract_user_info") /\ evaluated.args[1] = "70kg") =>
           /\ "weight" \in DOMAIN evaluated.result
           /\ evaluated.result["weight"] = DecFromInt(70)
    /\ (Ended("extract_user_info") /\ evaluated.args[1] = "154 lbs") =>
           /\ "weight" \in DOMAIN evaluated.result
           /\ evaluated.result["weight"] = <<69, 8531, 6800, 0, 0>>
           /\ DecWithin(evaluated.result["weight"], <<69, 8500, 0, 0, 0>>, <<70, 1500, 0, 0, 0>>)
           /\ ~DecWithin(evaluated.result["weight"], <<69, 9900, 0, 0, 0>>, <<70, 100, 0, 0, 0>>)

\* the weight of "154 lbs" has been extracted
C17_PoundsExtracted ==
    /\ Ended("extract_user_info")
    /\ evaluated.args[1] = "154 lbs"
    /\ "weight" \in DOMAIN evaluated.result

---------------------------------------------------------------------------
(* The extractor on competing cues: extract_user_info applied to one text  *)
(* made of one or two phrases, each a cue of a field or of none            *)

CueSegments ==
    {"male", "female", "Woman", "guy", "human", "180cm", "5 feet 9 inches", "5'9\"",
     "sedentary", "lightly active", "moderately active", "very active",
     "extremely active", "athlete", "lose weight", "gain weight", "maintain",
     "bulking", "cutting", "70kg", "30 years old", "hello"}

CueTexts == CueSegments \cup {a \o " " \o b : a, b \in CueSegments}

CueInit ==
    /\ Constructed
    /\ evaluated \in {Pending("extract_user_info", <<text>>) : text \in CueTexts}

CueSpec == CueInit /\ [][ExtractUserInfo]_vars

\* the values of the three word-cued fields in their order of precedence, and
\* the words and phrases that cue each value
CueOrder ==
    [gender |-> <<"male", "female">>,
     activity |-> <<"sedentary", "lightly_active", "moderately_active", "very_active",
                    "extremely_active">>,
     goal |-> <<"lose_weight", "gain_weight", "maintain_weight">>]

CueWords ==
    [male |-> {"male", "man", "guy"},
     female |-> {"female", "woman", "girl"},
     sedentary |-> {"sedentary", "desk job", "no exercise"},
     lightly_active |-> {"lightly active", "light exercise"},
     moderately_active |-> {"moderately active", "moderate exercise"},
     very_active |-> {"very active", "heavy exercise"},
     extremely_active |-> {"extremely active", "athlete"},
     lose_weight |-> {"lose weight", "weight loss", "cut", "cutting"},
     gain_weight |-> {"gain weight", "bulk", "bulking", "gain muscle"},
     maintain_weight |-> {"maintain", "maintenance"}]

\* the result holds the field exactly when a value of it is cued in the text,
\* and then with the first cued value of the order
FirstCuedValue(result, field, text) ==
    LET chosen(order, cued) ==
            IF cued = {} THEN field \notin DOMAIN result
            ELSE /\ field \in DOMAIN result
                 /\ result[field] = order[Leftmost(cued)]
        among(order) ==
            chosen(order, {k \in 1..Len(order) : WordSearch(text, CueWords[order[k]])})
    IN among(CueOrder[field])

\* the result holds the field exactly when the phrase is in the text, and
\* then with this value
CuedNumber(result, field, text, phrase, value) ==
    IF Contains(text, phrase)
    THEN field \in DOMAIN result /\ result[field] = value
    ELSE field \notin DOMAIN result

\* the height is the centimetres when they are given, else the feet and
\* inches converted (5 feet 9 inches are 69 * 2.54 = 175.26 cm), else absent
CuedHeight(result, text) ==
    IF Contains(text, "180cm")
    THEN "height" \in DOMAIN result /\ result["height"] = DecFromInt(180)
    ELSE IF Contains(text, "5 feet 9 inches") \/ Contains(text, "5'9\"")
    THEN "height" \in DOMAIN result /\ result["height"] = <<175, 2600, 0, 0, 0>>
    ELSE "height" \notin DOMAIN result

\* C21: the extractor returns only the fields whose pattern matches (no
\* defaults), and resolves competing cues by fixed precedence: male before
\* female when both gender cues appear, centimetres before feet/inches for
\* height, sedentary, lightly, moderately, very, extremely for activity, and
\* lose, gain, maintain for goal.
C21_OnlyMatchedByPrecedence ==
    LET fields(result, text) ==
            /\ DOMAIN result \subseteq RequiredSet
            /\ FirstCuedValue(result, "gender", text)
            /\ FirstCuedValue(result, "activity", text)
            /\ FirstCuedValue(result, "goal", text)
            /\ CuedHeight(result, text)
            /\ CuedNumber(result, "weight", text, "70kg", DecFromInt(70))
            /\ CuedNumber(result, "age", text, "30 years old", 30)
    IN Ended("extract_user_info") => fields(evaluated.result, Lower(evaluated.args[1]))

\* a text with the female cue before the male one gave the gender male, and
\* no other field
C21_FemaleThenMale ==
    /\ Ended("extract_user_info")
    /\ evaluated.args[1] = "female male"
    /\ evaluated.result = Entry("gender", "male")

---------------------------------------------------------------------------
(* The turn specification: one user, MaxTurnCalls calls, the messages      *)
(* giving all six fields at once, some of them, or one with a new value    *)

MaxTurnCalls == 3

TurnMessages ==
    {MsgCalories, MsgAllCalories, MsgStatsCalories, MsgAgeGender, MsgRest, MsgNewWeight,
     MsgPrescription}

TurnNext ==
    \/ \E message \in TurnMessages : calls < MaxTurnCalls /\ ProcessMessage("u1", message)
    \/ calls < MaxTurnCalls /\ ResetConversation("u1")

TurnSpec == Init /\ [][TurnNext]_vars

\* the user of the last call had neither a profile nor a history before it
BrandNew ==
    /\ last.user_id \notin DOMAIN last.profiles_before
    /\ last.user_id \notin DOMAIN last.history_before

\* the fields of the user's profile before the last call
FieldsBefore ==
    IF last.user_id \in DOMAIN last.profiles_before
    THEN DOMAIN last.profiles_before[last.user_id]
    ELSE {}

\* C22: within one turn the extraction is merged into the stored profile
\* before the completeness decision is taken: a brand-new user's single
\* message that holds all six fields and a calorie keyword receives the
\* computed calorie advice on that same turn, and an interview turn counts
\* the fields supplied in the current message.
C22_MergedBeforeDecision ==
    /\ (/\ ValidCall /\ BrandNew
        /\ DOMAIN extract_user_info(last.message) = RequiredSet
        /\ \E word \in {"calorie", "calories"} : Contains(Lower(last.message), word)) =>
           /\ last.outcome = "returned"
           /\ last.response =
                  CalorieAdviceText(calculate_daily_needs(extract_user_info(last.message)))
    /\ (/\ ValidCall /\ last.interview
        /\ FieldsBefore \cup DOMAIN extract_user_info(last.message) = RequiredSet) =>
           /\ last.outcome = "returned"
           /\ last.response = FullAdvice(last.user_id)

\* a new user's first message gave all six fields and asked for calories, and
\* the answer holds the calories computed from them
C22_AllAtOnce ==
    /\ ValidCall /\ BrandNew
    /\ last.message = MsgAllCalories
    /\ last.outcome = "returned"
    /\ Contains(last.response, "**Daily Calories**: 2094 calories")

---------------------------------------------------------------------------
(* Properties of the turns of an interview                                 *)

\* the user's stored history ends with the assistant's generic request for
\* the user's stats
AwaitingStats(history, user_id) ==
    LET asked(turns) ==
            /\ turns # <<>>
            /\ turns[Len(turns)] = Turn("assistant", ShareStatsText)
    IN user_id \in DOMAIN history /\ asked(history[user_id])

\* C23: a turn that is not mid-interview and classifies as calorie_calculation
\* with an incomplete profile returns the generic request for the user's
\* stats (no computed numbers), and the user's next valid message is then
\* handled by the mid-interview branch; rejected messages in between do not
\* end the interview.
C23_GenericRequestOpensInterview ==
    /\ [](( /\ ValidCall /\ ~MidInterview
            /\ _classify_query(Lower(last.message)) = "calorie_calculation"
            /\ DOMAIN user_profiles[last.user_id] # RequiredSet ) =>
               /\ last.outcome = "returned"
               /\ last.response = ShareStatsText
               /\ ~Contains(last.response, "**Daily Calories**")
               /\ AwaitingStats(conversation_history, last.user_id))
    /\ [][\A u \in Users :
              ( /\ AwaitingStats(conversation_history, u)
                /\ last'.op = "process_message" /\ last'.user_id = u ) =>
                  IF last'.valid THEN last'.interview
                  ELSE AwaitingStats(conversation_history', u)]_vars

\* a valid message was handled by the mid-interview branch after a rejected
\* one that followed the generic request
C23_InterviewSurvivedRejection ==
    /\ ValidCall /\ last.interview
    /\ last.prior.op = "process_message" /\ ~last.prior.valid
    /\ last.prior.user_id = last.user_id
    /\ AwaitingStats(last.history_before, last.user_id)

\* the user's profile before the last call, empty when there was none
ProfileBefore == Get(last.profiles_before, last.user_id, EmptyDict)

\* after is before with every field of info set to its value in info
IsUpsert(before, info, after) ==
    /\ DOMAIN after = DOMAIN before \cup DOMAIN info
    /\ \A f \in DOMAIN info : after[f] = info[f]
    /\ \A f \in DOMAIN before \ DOMAIN info : after[f] = before[f]

\* C24: a valid turn changes the stored profile by per-field upsert only:
\* every field present in the current message's extraction takes the newly
\* extracted value, every field absent from the extraction keeps its previous
\* value, and a message with no extractable field leaves an existing profile
\* unchanged.
C24_PerFieldUpsert ==
    ValidCall =>
        /\ IsUpsert(ProfileBefore, extract_user_info(last.message),
                    user_profiles[last.user_id])
        /\ (extract_user_info(last.message) = EmptyDict
            /\ last.user_id \in DOMAIN last.profiles_before) =>
               user_profiles[last.user_id] = last.profiles_before[last.user_id]

\* a message giving a new weight alone replaced the weight of a profile that
\* held all six fields, and the five others were kept
C24_WeightReplaced ==
    /\ ValidCall
    /\ last.message = MsgNewWeight
    /\ DOMAIN ProfileBefore = RequiredSet
    /\ ProfileBefore["weight"] = DecFromInt(70)
    /\ user_profiles[last.user_id] = [ProfileBefore EXCEPT !["weight"] = DecFromInt(72)]

\* C25: a message rejected by validation changes no state: it creates no
\* profile and no history entry for a new user, and leaves an existing user's
\* profile, history and mid-interview status exactly as they were.
C25_RejectedChangesNothing ==
    /\ []((last.op = "process_message" /\ Rejectable(last.message) /\ BrandNew) =>
              /\ last.user_id \notin DOMAIN user_profiles
              /\ last.user_id \notin DOMAIN conversation_history)
    /\ [][(last'.op = "process_message" /\ Rejectable(last'.message)) =>
              /\ user_profiles' = user_profiles
              /\ conversation_history' = conversation_history
              /\ AskedForInfo(Append(Get(conversation_history', last'.user_id, <<>>),
                                     Turn("user", MsgRest)))
                 <=> AskedForInfo(Append(Get(conversation_history, last'.user_id, <<>>),
                                         Turn("user", MsgRest)))]_vars

\* a message of two letters and a space was rejected for a user who had a
\* profile and was in the middle of an interview, and both are as before
C25_ShortMessageMidInterview ==
    /\ last.op = "process_message"
    /\ last.message = "hi "
    /\ MidInterview
    /\ ProfileBefore # EmptyDict
    /\ user_profiles = last.profiles_before
    /\ conversation_history = last.history_before

\* C26: between turns every user's history strictly alternates user and
\* assistant entries and has even length, so the entry that the interview
\* check reads as the previous assistant turn (the second-to-last once the
\* current user message is appended) always has role assistant and is never a
\* user message.
C26_HistoryAlternates ==
    \A u \in DOMAIN conversation_history :
        LET alternates(history) ==
                /\ Len(history) % 2 = 0
                /\ \A i \in 1..Len(history) :
                       history[i].role = IF i % 2 = 1 THEN "user" ELSE "assistant"
                /\ history # <<>> => history[Len(history)].role = "assistant"
        IN alternates(conversation_history[u])

\* the response gives computed daily calories and a macronutrient breakdown
HoldsComputedTargets(response) ==
    /\ Contains(response, "**Daily Calories**: ")
    /\ Contains(response, "**Macronutrient Breakdown**")

\* C27: whenever process_message returns a response that holds computed
\* calorie and macro targets (the full advice of the interview branch or the
\* computed answer of the calorie-calculation handler), the needs_disclaimer
\* flag it returns is true.
C27_ComputedTargetsDisclaimed ==
    (ValidCall /\ last.outcome = "returned" /\ HoldsComputedTargets(last.response)) =>
        last.needs_disclaimer

---------------------------------------------------------------------------
(* The vocabulary specification: one user, MaxVocabCalls calls, the        *)
(* messages wording the fields in several of the ways the extractor knows  *)

MaxVocabCalls == 3

VocabMessages == {MsgWoman, MsgDeskJob, MsgAthlete, MsgAllCalories, MsgCalories, MsgRest}

VocabNext ==
    \/ \E message \in VocabMessages : calls < MaxVocabCalls /\ ProcessMessage("u1", message)
    \/ calls < MaxVocabCalls /\ ResetConversation("u1")

VocabSpec == Init /\ [][VocabNext]_vars

\* a decimal number
IsNumber(d) == d \in Seq(Int) /\ Len(d) = NLimbs

\* every field the profile holds has a value of the closed vocabulary
InVocabulary(profile) ==
    /\ DOMAIN profile \subseteq RequiredSet
    /\ WellTyped(profile)
    /\ \A f \in {"weight", "height"} \cap DOMAIN profile : IsNumber(profile[f])
    /\ "age" \in DOMAIN profile => profile["age"] \in Nat

\* C28: every value stored in a profile through process_message lies in the
\* extractor's closed vocabulary (gender male or female, one of the five
\* activity levels, one of the three goals, numeric weight, height and age),
\* so calculate_daily_needs on a stored profile that has all six fields always
\* returns a computed result and never a calculation error.
C28_StoredProfilesCompute ==
    \A u \in DOMAIN user_profiles :
        /\ InVocabulary(user_profiles[u])
        /\ DOMAIN user_profiles[u] = RequiredSet =>
               HasNumbers(calculate_daily_needs(user_profiles[u]))

\* a stored profile with all six fields, worded as a woman with a desk job
\* who wants to maintain, her weight given in pounds and her height in feet
C28_WomanDeskJob ==
    /\ "u1" \in DOMAIN user_profiles
    /\ DOMAIN user_profiles["u1"] = RequiredSet
    /\ user_profiles["u1"]["gender"] = "female"
    /\ user_profiles["u1"]["activity"] = "sedentary"
    /\ user_profiles["u1"]["goal"] = "maintain_weight"
    /\ HasNumbers(calculate_daily_needs(user_profiles["u1"]))

---------------------------------------------------------------------------
(* process_message step by step: the calls of two users interleave between *)
(* the statements of chatbot.py 60-86; a user makes one call at a time      *)

MaxStepCalls == 3

StepMessages == {MsgCalories, MsgStatsCalories, MsgRest, MsgPrescription}

\* lines 60-68: the message is validated; a rejected one returns at once, an
\* accepted one is appended to the user's history, created when absent
BeginMessage(user_id, message) ==
    LET called == [NoCall EXCEPT !.op = "process_message", !.user_id = user_id,
                                 !.message = message,
                                 !.history_before = conversation_history,
                                 !.profiles_before = user_profiles]
        append(user_turn) ==
            /\ conversation_history' =
                   Put(conversation_history, user_id,
                       Append(Get(conversation_history, user_id, <<>>), user_turn))
            /\ appended' = Put(appended, user_id,
                               Append(Get(appended, user_id, <<>>), user_turn))
    IN
    /\ user_id \notin DOMAIN in_flight
    /\ calls' = calls + 1
    /\ IF ~Validated[message]
       THEN /\ last' = [called EXCEPT !.outcome = "returned", !.response = RedirectText,
                                      !.needs_disclaimer = FALSE,
                                      !.prior = [last EXCEPT !.prior = <<>>]]
            /\ UNCHANGED <<conversation_history, appended, in_flight>>
       ELSE /\ append(Turn("user", message))
            /\ in_flight' = Put(in_flight, user_id,
                                [pc |-> "analyze", called |-> called, response |-> ""])
            /\ UNCHANGED last
    /\ UNCHANGED <<user_profiles, model_loaded, evaluated, ui_history>>

\* line 71: analyze_user_query merges the extraction into the stored profile
MergeExtraction(user_id) ==
    LET merged(called, analyzed) ==
            /\ user_profiles' = analyzed.profiles
            /\ in_flight' =
                   Put(in_flight, user_id,
                       [pc |-> "respond",
                        called |-> [called EXCEPT
                                       !.valid = TRUE,
                                       !.query_type = analyzed.analysis.query_type,
                                       !.extracted_info = analyzed.analysis.extracted_info],
                        response |-> ""])
        analyze(called) ==
            merged(called, analyze_user_query(user_profiles, called.message, user_id))
    IN
    /\ user_id \in DOMAIN in_flight
    /\ in_flight[user_id].pc = "analyze"
    /\ analyze(in_flight[user_id].called)
    /\ UNCHANGED <<conversation_history, model_loaded, appended, last, calls, evaluated,
                   ui_history>>

\* line 74: the response is built from the analysis, whose user_profile is the
\* stored dict itself, and from the user's history; an exception ends the call
BuildResponse(user_id) ==
    LET built(answered, result) ==
            IF result.ok
            THEN /\ in_flight' = Put(in_flight, user_id,
                                     [pc |-> "answer", called |-> answered,
                                      response |-> result.value])
                 /\ UNCHANGED last
            ELSE /\ in_flight' = Del(in_flight, user_id)
                 /\ last' = [answered EXCEPT !.outcome = "raised",
                                             !.prior = [last EXCEPT !.prior = <<>>]]
        build(called, conversation) ==
            \E result \in _generate_contextual_response(
                              called.message,
                              [query_type |-> called.query_type,
                               extracted_info |-> called.extracted_info,
                               user_profile |-> user_profiles[user_id]],
                              conversation, model_loaded) :
                built([called EXCEPT !.interview = AskedForInfo(conversation)], result)
    IN
    /\ user_id \in DOMAIN in_flight
    /\ in_flight[user_id].pc = "respond"
    /\ build(in_flight[user_id].called, conversation_history[user_id])
    /\ UNCHANGED <<conversation_history, user_profiles, model_loaded, appended, calls,
                   evaluated, ui_history>>

\* AppendResponse appending the response to the history of every user
AppendResponse_to_all(user_id) ==
    LET append(bot_turn) ==
            /\ conversation_history' =
                   [u \in DOMAIN conversation_history |->
                        Append(conversation_history[u], bot_turn)]
            /\ appended' = [u \in DOMAIN appended |-> Append(appended[u], bot_turn)]
    IN
    /\ user_id \in DOMAIN in_flight
    /\ in_flight[user_id].pc = "answer"
    /\ append(Turn("assistant", in_flight[user_id].response))
    /\ in_flight' = Put(in_flight, user_id, [in_flight[user_id] EXCEPT !.pc = "truncate"])
    /\ UNCHANGED <<user_profiles, model_loaded, last, calls, evaluated, ui_history>>

\* line 77: the response is appended to the user's history
AppendResponse(user_id) ==
    LET append(bot_turn) ==
            /\ conversation_history' =
                   Put(conversation_history, user_id,
                       Append(conversation_history[user_id], bot_turn))
            /\ appended' = Put(appended, user_id, Append(appended[user_id], bot_turn))
    IN
    /\ user_id \in DOMAIN in_flight
    /\ in_flight[user_id].pc = "answer"
    /\ append(Turn("assistant", in_flight[user_id].response))
    /\ in_flight' = Put(in_flight, user_id, [in_flight[user_id] EXCEPT !.pc = "truncate"])
    /\ UNCHANGED <<user_profiles, model_loaded, last, calls, evaluated, ui_history>>

\* lines 80-86: the history is cut to its last entries and the call returns
TruncateAndReturn(user_id) ==
    LET return(answered, response) ==
            last' = [answered EXCEPT
                        !.outcome = "returned",
                        !.response = response,
                        !.needs_disclaimer = _needs_disclaimer(answered.query_type),
                        !.prior = [last EXCEPT !.prior = <<>>]]
    IN
    /\ user_id \in DOMAIN in_flight
    /\ in_flight[user_id].pc = "truncate"
    /\ conversation_history' =
           Put(conversation_history, user_id,
               Tail_n(conversation_history[user_id], HistoryCap))
    /\ return(in_flight[user_id].called, in_flight[user_id].response)
    /\ in_flight' = Del(in_flight, user_id)
    /\ UNCHANGED <<user_profiles, model_loaded, appended, calls, evaluated, ui_history>>

StepNext ==
    \/ \E user_id \in TwoUsers, message \in StepMessages :
            calls < MaxStepCalls /\ BeginMessage(user_id, message)
    \/ \E user_id \in TwoUsers : MergeExtraction(user_id)
    \/ \E user_id \in TwoUsers : BuildResponse(user_id)
    \/ \E user_id \in TwoUsers : AppendResponse(user_id)
    \/ \E user_id \in TwoUsers : TruncateAndReturn(user_id)

StepSpec == Init /\ [][StepNext]_vars

\* the profile and the history the user of the last call has when that call
\* runs with no other call in progress
SequentialProfile ==
    Entry(last.user_id, Update(ProfileBefore, extract_user_info(last.message)))

SequentialHistory ==
    LET sequential(before, user_turn) ==
            IF last.outcome = "returned"
            THEN Tail_n(Append(Append(before, user_turn),
                               Turn("assistant", last.response)), 20)
            ELSE Append(before, user_turn)
    IN Entry(last.user_id,
             sequential(Get(last.history_before, last.user_id, <<>>),
                        Turn("user", last.message)))

\* the step is not one of a call of this user
NotStepOf(user_id) ==
    /\ Own(in_flight', user_id) = Own(in_flight, user_id)
    /\ last' = last \/ last'.user_id # user_id

\* C29: when process_message calls for two different user ids are interleaved
\* at the granularity of their steps (append user message, merge extraction,
\* build response, append response, truncate), each user's final profile,
\* history and response equal those obtained when the two calls run one after
\* the other in either order.
C29_InterleavedAsSequential ==
    /\ []((ValidCall /\ last.user_id \notin DOMAIN in_flight) =>
              /\ LastOutcome \in OwnOutcomes(last.user_id, last.message)
              /\ Own(user_profiles, last.user_id) = SequentialProfile
              /\ Own(conversation_history, last.user_id) = SequentialHistory)
    /\ [][\A user_id \in TwoUsers :
              NotStepOf(user_id) =>
                  /\ Own(user_profiles', user_id) = Own(user_profiles, user_id)
                  /\ Own(conversation_history', user_id)
                         = Own(conversation_history, user_id)]_vars

\* a call was answered by the interview branch and returned while the call of
\* the other user, begun after it, had merged its extraction and built its
\* response
C29_ReturnedAmidOtherCall ==
    /\ ValidCall /\ last.outcome = "returned" /\ last.interview
    /\ \E other \in TwoUsers \ {last.user_id} :
           /\ other \in DOMAIN in_flight
           /\ in_flight[other].pc = "answer"
           /\ last.user_id \in DOMAIN in_flight[other].called.history_before
           /\ Len(in_flight[other].called.history_before[last.user_id])
                  = Len(conversation_history[last.user_id]) - 1

---------------------------------------------------------------------------
(* The interface of app.py: SimpleDietChatbotApp holds one DietChatbot;     *)
(* every browser session has its own chat history and calls the handlers   *)
(* chat_interface and clear_conversation                                   *)

\* the default of the user_id parameter of process_message and reset_conversation
DefaultUserId == "default"

CONVERSATION_STARTERS ==
    {"Hi! I'm NutriBot, your personal nutrition coach. How can I help you with your diet and nutrition goals today?",
     "Hello! Ready to talk about nutrition? I'm here to help with meal planning, calorie guidance, or any diet questions you have.",
     "Welcome! I'm your nutrition advisor. Whether you want to lose weight, gain muscle, or just eat healthier, I'm here to guide you."}

DISCLAIMER_TEXT ==
    " This advice is for general information only and should not replace professional medical guidance. Please consult with healthcare providers for personalized medical advice."

ErrorResponseText ==
    "I apologize, but I encountered an error processing your message. Please try rephrasing your question about nutrition or diet."

\* Python's None
None == <<>>

\* the histories a session's chat component may hold before any handler has
\* run for the session: [[None, self.chatbot.get_welcome_message()]]
InitialHistories == {<< <<None, welcome>> >> : welcome \in CONVERSATION_STARTERS}

\* SimpleDietChatbotApp.chat_interface(message, history) called by a session
ChatInterface(session, message) ==
    LET shown(call) ==
            IF call.outcome = "raised" THEN ErrorResponseText
            ELSE IF call.needs_disclaimer THEN call.response \o "\n\n" \o DISCLAIMER_TEXT
            ELSE call.response
        chat(history) ==
            /\ process_message(DefaultUserId, message)
            /\ ui_history' = Put(ui_history, session, Append(history, <<message, shown(last')>>))
            /\ UNCHANGED in_flight
    IN IF Strip(message) = ""
       THEN UNCHANGED vars
       ELSE IF session \in DOMAIN ui_history
       THEN chat(ui_history[session])
       ELSE \E history \in InitialHistories : chat(history)

\* SimpleDietChatbotApp.clear_conversation() called by a session
ClearConversation(session) ==
    /\ reset_conversation(DefaultUserId)
    /\ ui_history' = Put(ui_history, session, <<>>)
    /\ UNCHANGED in_flight

MaxAppCalls == 3

Sessions == {"s1", "s2"}

AppMessages == {MsgCalories, MsgAgeGender, MsgRest, MsgPrescription, ""}

AppNext ==
    \/ \E session \in Sessions, message \in AppMessages :
            calls < MaxAppCalls /\ ChatInterface(session, message)
    \/ \E session \in Sessions :
            calls < MaxAppCalls /\ ClearConversation(session)

AppSpec == Init /\ [][AppNext]_vars

\* the session has sent no message since it was opened or last cleared
NoExchangeYet(session) ==
    session \notin DOMAIN ui_history \/ ui_history[session] = <<>>

\* the step is a handler call of this session
HandlerStepOf(session) == Own(ui_history', session) # Own(ui_history, session)

\* C30: chat turns and "New Conversation" resets issued from two different UI
\* sessions act on different user ids, so the profile fields extracted in one
\* session and a reset in one session never change the responses given to the
\* other session: the first message of a session is answered as that of a user
\* never seen before, and a reset by a session that has sent nothing deletes
\* no stored profile and no stored history.
C30_SessionsDoNotInterfere ==
    [][\A session \in Sessions :
          (HandlerStepOf(session) /\ NoExchangeYet(session)) =>
              /\ (last'.op = "process_message" /\ last'.valid) =>
                     /\ last'.outcome = "returned"
                     /\ Returned(last'.response)
                            \in FreshOutcomes(last'.user_id, last'.message)
              /\ last'.op = "reset_conversation" =>
                     /\ user_profiles' = user_profiles
                     /\ conversation_history' = conversation_history]_vars

===========================================================================
